---------------------------- MODULE Spec2Model ----------------------------
(***************************************************************************)
(* A model of the turn-taking and response-caching core of aideepspeak:    *)
(* cache_manager.py (CacheManager), ai_connectors.py (the backends and     *)
(* call_ai_model, decide_next_speaker), utils.py (the review hooks, the    *)
(* log file) and conversation_manager.py (ConversationManager).            *)
(*                                                                         *)
(* Text is a sequence of characters, each a one-character string.  A few   *)
(* fixed pieces of text that the code only ever handles whole are written  *)
(* as one element: the backend identifiers ("claude", ...), the sender     *)
(* "SystemCheck", the words of the markers ("[Goal", "Check]", "[Closing"),*)
(* the word "ERROR", the keys and numbers of a printed usage dictionary    *)
(* and the constant parts of the prompt templates ("<...>").  None of them *)
(* contains white space, a colon, a quote, or the letters of YES or NO in  *)
(* a row, so the character tests of the code read them as they read the    *)
(* text they stand for.                                                    *)
(***************************************************************************)
EXTENDS Integers, Sequences, FiniteSets, TLC

(***************************************************************************)
(* Bounds of the model.                                                    *)
(***************************************************************************)
MaxPromptLen == 2
MaxMsgLen == 3
MaxTime == 3
MaxOps == 3
MaxRuns == 2
MaxCalls == 2
MaxRetries == 1
MaxTurns == 2
MaxWords == 3

(***************************************************************************)
(* Program constants.                                                      *)
(***************************************************************************)
DEFAULT_CACHE_SEED == 69
DEFAULT_EXPIRY_DAYS == 3
\* the seed of the request example {"topic": "...", "cache_seed": 42}
REQUEST_CACHE_SEED == 42

(***************************************************************************)
(* Python's str operations on character sequences.                         *)
(***************************************************************************)
Whitespace == {" ", "\n"}

RECURSIVE lstrip(_)
lstrip(s) ==
  IF s # <<>> /\ Head(s) \in Whitespace THEN lstrip(Tail(s)) ELSE s

RECURSIVE rstrip(_)
rstrip(s) ==
  IF s # <<>> /\ s[Len(s)] \in Whitespace
  THEN rstrip(SubSeq(s, 1, Len(s) - 1)) ELSE s

strip(s) == rstrip(lstrip(s))

\* s.split("\n"): the lines of s, at least one
RECURSIVE split_lines(_)
split_lines(s) ==
  IF \E i \in 1..Len(s) : s[i] = "\n"
  THEN LET i == CHOOSE j \in 1..Len(s) :
                  s[j] = "\n" /\ \A k \in 1..(j - 1) : s[k] # "\n"
       IN  <<SubSeq(s, 1, i - 1)>> \o split_lines(SubSeq(s, i + 1, Len(s)))
  ELSE <<s>>

\* "\n".join(lines)
RECURSIVE join_lines(_)
join_lines(lines) ==
  IF lines = <<>> THEN <<>>
  ELSE IF Len(lines) = 1 THEN lines[1]
  ELSE lines[1] \o <<"\n">> \o join_lines(Tail(lines))

startswith(s, p) == Len(p) <= Len(s) /\ SubSeq(s, 1, Len(p)) = p

endswith(s, p) ==
  Len(p) <= Len(s) /\ SubSeq(s, Len(s) - Len(p) + 1, Len(s)) = p

\* p in s
contains(s, p) ==
  \E i \in 1..(Len(s) - Len(p) + 1) : SubSeq(s, i, i + Len(p) - 1) = p

\* s.count(c) for a single character c
count(s, c) == Cardinality({i \in 1..Len(s) : s[i] = c})

upper_char(c) ==
  CASE c = "a" -> "A" [] c = "b" -> "B" [] c = "c" -> "C" [] c = "d" -> "D"
    [] c = "e" -> "E" [] c = "f" -> "F" [] c = "g" -> "G" [] c = "h" -> "H"
    [] c = "i" -> "I" [] c = "j" -> "J" [] c = "k" -> "K" [] c = "l" -> "L"
    [] c = "m" -> "M" [] c = "n" -> "N" [] c = "o" -> "O" [] c = "p" -> "P"
    [] c = "q" -> "Q" [] c = "r" -> "R" [] c = "s" -> "S" [] c = "t" -> "T"
    [] c = "u" -> "U" [] c = "v" -> "V" [] c = "w" -> "W" [] c = "x" -> "X"
    [] c = "y" -> "Y" [] c = "z" -> "Z"
    [] OTHER -> c

upper(s) == [i \in 1..Len(s) |-> upper_char(s[i])]

\* len(s.split()): the number of maximal runs of non-white-space
word_count(s) ==
  Cardinality({i \in 1..Len(s) :
                 s[i] \notin Whitespace /\ (i = 1 \/ s[i - 1] \in Whitespace)})

\* every text of at most n characters over the alphabet
RECURSIVE Texts(_, _)
Texts(alphabet, n) ==
  IF n = 0 THEN {<<>>}
  ELSE LET shorter == Texts(alphabet, n - 1)
       IN  shorter \cup {Append(t, c) : t \in shorter, c \in alphabet}

(***************************************************************************)
(* Values of a usage dictionary carry their Python type.                   *)
(***************************************************************************)
PyInt(n) == <<"int", n>>
PyFloat(x) == <<"float", x>>
PyStr(t) == <<"str", t>>
PyBool(b) == <<"bool", b>>

(***************************************************************************)
(* cache_manager.py                                                        *)
(***************************************************************************)
normalize_prompt(prompt) ==
  LET lines == split_lines(prompt)
  IN  strip(join_lines([i \in 1..Len(lines) |-> strip(lines[i])]))

\* a key that does not tell one seed from another
seed_str_same(seed) == "seed"

\* str(cache_seed) as one element: the decimal digits of an integer
seed_str(seed) == ToString(seed)

\* sha256 is taken to be injective: the hash is the text that is hashed,
\* f"{normalized_prompt}:{model_name}:{self.cache_seed}"
generate_hash_raw(seed, prompt, model_name) ==
  prompt \o <<":", model_name, ":", seed_str(seed)>>

\* a hash of the prompt as given, not normalized
generate_hash_unnormalized(seed, prompt, model_name) ==
  generate_hash_raw(seed, prompt, model_name)

generate_hash(seed, prompt, model_name) ==
  generate_hash_raw(seed, normalize_prompt(prompt), model_name)

(***************************************************************************)
(* The state.                                                              *)
(***************************************************************************)
VARIABLES
  now,            \* datetime.now().timestamp(), counted in days
  cache_file,     \* cache/ai_responses_cache.json: its "entries" table, a
                  \* function from hash to entry (no file reads as the
                  \* empty table, as _load_cache gives it)
  storage,        \* what the file system and the file's content let the
                  \* process do with the cache file: whether it can be read,
                  \* whether it can be written, and whether the content is
                  \* the table, no JSON at all, or a JSON object without
                  \* "entries"
  cache_manager,  \* the module global: NoManager, or <<cache_seed>>
  got,            \* what the last CacheManager.get returned, and the key
                  \* it looked for
  stored,         \* history: the stores made through CacheManager.set and
                  \* not since overwritten or cleared, each marked once
                  \* it was pruned as an error or invalidated
  ops,            \* history: the number of cache operations so far
  process,        \* the Python process: "none" before it starts, "running",
                  \* "ended", "exited" (sys.exit) or "raised" (an exception
                  \* nobody caught)
  configured,     \* the backends whose package and API key are present
  debug_manager,  \* utils.debug_manager: debug_enabled, show_only, skip_debug
  gw,             \* the call_ai_model invocation in progress (depth: how many
                  \* times it has called itself)
  calls,          \* history: what the gateway did in this process
  reviewer,       \* the person at the terminal: what they will type
  run,            \* run_conversation: where it is, and its locals
  cm,             \* the ConversationManager's fields
  log_file,       \* the JSON file at this run's log_file_path
  history,        \* history: the runs before this one, when this one
                  \* started and whether its log_file_path is that of the
                  \* run before
  timing,         \* calculate_message_duration: its last call
  wrapper,        \* call_with_timeout: the call in progress, its countdown
                  \* thread and how it ended
  writers,        \* two processes in CacheManager.set on the same cache
                  \* file: where each is, the cache_data it loaded, the
                  \* key and entry it stores, and (history) the order of
                  \* their loads and saves
  server          \* history of a process that serves /generate_setup: the
                  \* init_cache calls it has made, the cache_seed of the
                  \* last one and that of the call that made the manager

cacheVars == <<now, cache_file, storage, cache_manager, got, stored, ops>>
gwVars == <<process, configured, debug_manager, gw, calls, reviewer>>
runVars == <<run, cm, log_file, history>>
vars == <<cacheVars, gwVars, runVars, timing, wrapper, writers, server>>

None == <<>>
NoManager == <<>>
EmptyTable == <<>>

\* a process that has not called init_cache
NoServer == [calls |-> 0, cache_seed |-> 0, first_seed |-> 0, at |-> 0]

\* no process is in CacheManager.set
NoWriters == [of |-> <<>>, events |-> <<>>]

\* a copy that leaves the new key out
with_field_left_out(usage_info, key, value) == usage_info

\* {**usage_info, key: value}
with_field(usage_info, key, value) == (key :> value) @@ usage_info

has_error_field(usage_info) == "error" \in DOMAIN usage_info

\* a pruning pass that takes no entry for an error
prune_is_error_never(entry) == FALSE

\* _prune_expired, lines 83-86
prune_is_error(entry) ==
  \/ startswith(entry.response, <<"[">>) /\ contains(entry.response, <<"ERROR">>)
  \/ has_error_field(entry.usage_info)

\* an entry expiring this very moment is kept
prune_is_expired_strict(entry, current_time) == entry.expires_at < current_time

prune_is_expired(entry, current_time) == entry.expires_at <= current_time

\* _prune_expired: the table it leaves in the file
prune_expired(file, current_time) ==
  LET valid == {k \in DOMAIN file :
                  ~prune_is_expired(file[k], current_time) /\ ~prune_is_error(file[k])}
  IN  [k \in valid |-> file[k]]

\* a lookup for which every entry has expired
get_is_live_never(entry, current_time) == FALSE

get_is_live(entry, current_time) == entry.expires_at > current_time

\* a lookup that finds nothing
cache_get_hash_miss(file, current_time, prompt_hash) == None

\* CacheManager.get, from the hash on (lines 108-117)
cache_get_hash(file, current_time, prompt_hash) ==
  IF prompt_hash \in DOMAIN file /\ get_is_live(file[prompt_hash], current_time)
  THEN <<file[prompt_hash].response,
         with_field(file[prompt_hash].usage_info, "cached", PyBool(TRUE))>>
  ELSE None

\* CacheManager.get
cache_get(seed, file, current_time, prompt, model_name) ==
  cache_get_hash(file, current_time, generate_hash(seed, prompt, model_name))

\* a store that keeps the entry a key already has
cache_set_keeps_first(seed, file, current_time, prompt, model_name, response, usage_info) ==
  LET prompt_hash == generate_hash(seed, prompt, model_name)
      entry == [prompt |-> prompt, model |-> model_name, response |-> response,
                usage_info |-> usage_info, created_at |-> current_time,
                expires_at |-> current_time + DEFAULT_EXPIRY_DAYS]
  IN  file @@ (prompt_hash :> entry)

\* a store that writes its entry and nothing else
cache_set_alone(seed, file, current_time, prompt, model_name, response, usage_info) ==
  LET prompt_hash == generate_hash(seed, prompt, model_name)
      entry == [prompt |-> prompt, model |-> model_name, response |-> response,
                usage_info |-> usage_info, created_at |-> current_time,
                expires_at |-> current_time + DEFAULT_EXPIRY_DAYS]
  IN  (prompt_hash :> entry)

\* CacheManager.set: the table it writes
cache_set(seed, file, current_time, prompt, model_name, response, usage_info) ==
  LET prompt_hash == generate_hash(seed, prompt, model_name)
      entry == [prompt |-> prompt, model |-> model_name, response |-> response,
                usage_info |-> usage_info, created_at |-> current_time,
                expires_at |-> current_time + DEFAULT_EXPIRY_DAYS]
  IN  (prompt_hash :> entry) @@ file

\* a delete that leaves the table as it is
cache_delete_nothing(seed, file, prompt, model_name) == file

\* a delete that looks for the hash of the prompt as it was given
cache_delete_raw(seed, file, prompt, model_name) ==
  LET prompt_hash == generate_hash_raw(seed, prompt, model_name)
  IN  [k \in DOMAIN file \ {prompt_hash} |-> file[k]]

\* CacheManager.delete: the table it leaves
cache_delete(seed, file, prompt, model_name) ==
  LET prompt_hash == generate_hash(seed, prompt, model_name)
  IN  [k \in DOMAIN file \ {prompt_hash} |-> file[k]]

\* CacheManager.clear removes the file (what it needs is the directory's
\* permission, which stays as it is), and no file reads as the empty table
cache_clear(file) == EmptyTable

\* a cache file that can be read and written and holds the table
Healthy == [readable |-> TRUE, writable |-> TRUE, content |-> "table"]

\* the storage after a successful json.dump of the table
written(st) == [st EXCEPT !.content = "table"]

\* _load_cache: the entries of the object it returns and whether that
\* object has the key "entries" at all. An open or a json.load that raises
\* is caught and gives the empty cache; a JSON object without "entries" is
\* returned as it is
load_cache(st, file) ==
  IF ~st.readable \/ st.content = "garbage"
  THEN [has_entries |-> TRUE, entries |-> EmptyTable]
  ELSE IF st.content = "no_entries"
  THEN [has_entries |-> FALSE, entries |-> EmptyTable]
  ELSE [has_entries |-> TRUE, entries |-> file]

\* how an operation on the file ends: with an exception or not, having
\* written the file or not, and the file and storage it leaves
Outcome(raised, wrote, file, st) ==
  [raised |-> raised, wrote |-> wrote, file |-> file, storage |-> st]

\* CacheManager.__init__ with its _prune_expired: cache_data["entries"] and
\* _save_cache are outside any try
manager_init(st, file, current_time) ==
  LET cache_data == load_cache(st, file)
      valid_entries == prune_expired(cache_data.entries, current_time)
      expired_count == Cardinality(DOMAIN cache_data.entries \ DOMAIN valid_entries)
  IN  IF ~cache_data.has_entries THEN Outcome(TRUE, FALSE, file, st)
      ELSE IF expired_count = 0 THEN Outcome(FALSE, FALSE, file, st)
      ELSE IF ~st.writable THEN Outcome(TRUE, FALSE, file, st)
      ELSE Outcome(FALSE, TRUE, valid_entries, written(st))

\* a lookup that removes the expired entry it finds
manager_get_pruning(seed, st, file, current_time, prompt, model_name) ==
  LET cache_data == load_cache(st, file)
      prompt_hash == generate_hash(seed, prompt, model_name)
      result == cache_get(seed, cache_data.entries, current_time, prompt, model_name)
  IN  IF ~cache_data.has_entries
      THEN [raised |-> TRUE, result |-> None, file |-> file, storage |-> st]
      ELSE IF prompt_hash \in DOMAIN cache_data.entries /\ result = None
      THEN [raised |-> FALSE, result |-> None,
            file |-> [k \in DOMAIN cache_data.entries \ {prompt_hash} |->
                        cache_data.entries[k]],
            storage |-> written(st)]
      ELSE [raised |-> FALSE, result |-> result, file |-> file, storage |-> st]

\* CacheManager.get on the file as it is: it raises on an object without
\* "entries"; it opens the file for reading only, and leaves the file and
\* what the process can do with it as they are
manager_get(seed, st, file, current_time, prompt, model_name) ==
  LET cache_data == load_cache(st, file)
  IN  IF ~cache_data.has_entries
      THEN [raised |-> TRUE, result |-> None, file |-> file, storage |-> st]
      ELSE [raised |-> FALSE,
            result |-> cache_get(seed, cache_data.entries, current_time, prompt, model_name),
            file |-> file, storage |-> st]

\* a store whose failed write raises
manager_set_raising(seed, st, file, current_time, prompt, model_name, response, usage_info) ==
  LET cache_data == load_cache(st, file)
  IN  IF ~cache_data.has_entries \/ ~st.writable THEN Outcome(TRUE, FALSE, file, st)
      ELSE Outcome(FALSE, TRUE,
                   cache_set(seed, cache_data.entries, current_time, prompt, model_name,
                             response, usage_info),
                   written(st))

\* CacheManager.set on the file as it is: the whole body is in a try, what
\* it loaded plus the new entry is written when the write succeeds
manager_set(seed, st, file, current_time, prompt, model_name, response, usage_info) ==
  LET cache_data == load_cache(st, file)
  IN  IF ~cache_data.has_entries \/ ~st.writable THEN Outcome(FALSE, FALSE, file, st)
      ELSE Outcome(FALSE, TRUE,
                   cache_set(seed, cache_data.entries, current_time, prompt, model_name,
                             response, usage_info),
                   written(st))

\* CacheManager.delete on the file as it is: cache_data["entries"] and
\* _save_cache are outside any try
manager_delete(seed, st, file, prompt, model_name) ==
  LET cache_data == load_cache(st, file)
      prompt_hash == generate_hash(seed, prompt, model_name)
  IN  IF ~cache_data.has_entries THEN Outcome(TRUE, FALSE, file, st)
      ELSE IF prompt_hash \notin DOMAIN cache_data.entries THEN Outcome(FALSE, FALSE, file, st)
      ELSE IF ~st.writable THEN Outcome(TRUE, FALSE, file, st)
      ELSE Outcome(FALSE, TRUE,
                   cache_delete(seed, cache_data.entries, prompt, model_name), written(st))

\* prompts, models and results the cache operations are tried on
PromptAlphabet == {"a", " ", "\n"}
Prompts == Texts(PromptAlphabet, MaxPromptLen)
CacheModels == {"claude", "ollama"}
Seeds == {DEFAULT_CACHE_SEED, REQUEST_CACHE_SEED}
Hi == <<"H", "i">>
ErrorText(model_name, message) ==
  <<"[", model_name, " ", "ERROR", "]", ":", " ">> \o message
Refused == <<"n", "o">>
\* a message with the letters of yes in it
Eyes == <<"e", "y", "e", "s">>
OkUsage == [total_tokens |-> PyInt(7), ttfb_seconds |-> PyFloat(1)]
ErrorUsage == [error |-> PyStr(Refused), ttfb_seconds |-> PyInt(0)]
\* the prompts the cache operations are tried on: two that are equal after
\* normalization (the models and the seeds give the other keys)
CachePrompts == {<<"a">>, <<" ", "a", "\n">>}
\* the results stored: a reply and a failure
CacheResults == {<<Hi, OkUsage>>, <<ErrorText("claude", Refused), ErrorUsage>>}

\* the claims' words for a failed call's result: text starting with '[' and
\* containing 'ERROR', or usage with an error field
ErrorShaped(response, usage_info) ==
  \/ (response # <<>> /\ response[1] = "[" /\ \E i \in 1..Len(response) : response[i] = "ERROR")
  \/ "error" \in DOMAIN usage_info

\* the claims' words for prompts that are equal after normalization, with
\* the same model and seed
SameKey(t, u) ==
  normalize_prompt(t[1]) = normalize_prompt(u[1]) /\ t[2] = u[2] /\ t[3] = u[3]

(***************************************************************************)
(* The cache operations as steps of a process that owns the cache file.    *)
(***************************************************************************)
\* CacheManager.__init__ (through init_cache in a new process)
CacheConstruct ==
  /\ process = "running"
  /\ ops < MaxOps
  /\ \E out \in {manager_init(storage, cache_file, now)} :
         /\ cache_file' = out.file
         /\ storage' = out.storage
         /\ process' = IF out.raised THEN "raised" ELSE process
         /\ \E seed \in Seeds :
              cache_manager' = IF out.raised THEN cache_manager ELSE <<seed>>
         /\ stored' = IF out.wrote
                      THEN [t \in DOMAIN stored |->
                              IF ErrorShaped(stored[t].response, stored[t].usage_info)
                              THEN [stored[t] EXCEPT !.pruned = TRUE] ELSE stored[t]]
                      ELSE stored
  /\ ops' = ops + 1
  /\ UNCHANGED <<now, got>>
  /\ UNCHANGED <<configured, debug_manager, gw, calls, reviewer, runVars, timing, wrapper, writers, server>>

CacheGet ==
  /\ process = "running"
  /\ ops < MaxOps
  /\ cache_manager # NoManager
  /\ \E prompt \in CachePrompts, model_name \in CacheModels :
       \E out \in {manager_get(cache_manager[1], storage, cache_file, now, prompt, model_name)} :
           /\ got' = IF out.raised THEN got
                     ELSE [called |-> TRUE, result |-> out.result,
                           key |-> generate_hash(cache_manager[1], prompt, model_name)]
           /\ process' = IF out.raised THEN "raised" ELSE process
           /\ cache_file' = out.file
           /\ storage' = out.storage
  /\ ops' = ops + 1
  /\ UNCHANGED <<now, cache_manager, stored>>
  /\ UNCHANGED <<configured, debug_manager, gw, calls, reviewer, runVars, timing, wrapper, writers, server>>

CacheSet ==
  /\ process = "running"
  /\ ops < MaxOps
  /\ cache_manager # NoManager
  /\ \E prompt \in CachePrompts, model_name \in CacheModels, result \in CacheResults :
       LET response == result[1]
           usage_info == result[2]
           t == <<prompt, model_name, cache_manager[1]>>
           kept == {u \in DOMAIN stored : ~SameKey(t, u)}
       IN  \E out \in {manager_set(cache_manager[1], storage, cache_file, now, prompt,
                              model_name, response, usage_info)} :
           /\ cache_file' = out.file
           /\ storage' = out.storage
           /\ process' = IF out.raised THEN "raised" ELSE process
           /\ stored' = IF out.wrote
                        THEN [u \in kept \cup {t} |->
                                IF u = t
                                THEN [response |-> response, usage_info |-> usage_info,
                                      expires_at |-> now + DEFAULT_EXPIRY_DAYS,
                                      pruned |-> FALSE, deleted |-> FALSE]
                                ELSE stored[u]]
                        ELSE stored
  /\ ops' = ops + 1
  /\ UNCHANGED <<now, cache_manager, got>>
  /\ UNCHANGED <<configured, debug_manager, gw, calls, reviewer, runVars, timing, wrapper, writers, server>>

CacheDeleteOf(prompt, model_name) ==
  /\ process = "running"
  /\ ops < MaxOps
  /\ cache_manager # NoManager
  /\ LET t == <<prompt, model_name, cache_manager[1]>>
     IN  \E out \in {manager_delete(cache_manager[1], storage, cache_file, prompt, model_name)} :
         /\ cache_file' = out.file
         /\ storage' = out.storage
         /\ process' = IF out.raised THEN "raised" ELSE process
         /\ stored' = IF out.wrote
                      THEN [u \in DOMAIN stored |->
                              IF SameKey(t, u) THEN [stored[u] EXCEPT !.deleted = TRUE]
                              ELSE stored[u]]
                      ELSE stored
  /\ ops' = ops + 1
  /\ UNCHANGED <<now, cache_manager, got>>
  /\ UNCHANGED <<configured, debug_manager, gw, calls, reviewer, runVars, timing, wrapper, writers, server>>

CacheDelete ==
  \E prompt \in CachePrompts, model_name \in CacheModels : CacheDeleteOf(prompt, model_name)

CacheClear ==
  /\ process = "running"
  /\ ops < MaxOps
  /\ cache_manager # NoManager
  /\ cache_file' = cache_clear(cache_file)
  /\ storage' = written(storage)
  /\ stored' = <<>>
  /\ ops' = ops + 1
  /\ UNCHANGED <<now, cache_manager, got>>
  /\ UNCHANGED <<gwVars, runVars, timing, wrapper, writers, server>>

\* a day passes
Tick ==
  /\ now < MaxTime
  /\ now' = now + 1
  /\ UNCHANGED <<cache_file, storage, cache_manager, got, stored, ops>>
  /\ UNCHANGED <<gwVars, runVars, timing, wrapper, writers, server>>

(***************************************************************************)
(* ai_connectors.py: the backends.                                         *)
(***************************************************************************)
BackendModels == {"openai-gpt", "claude", "gemini", "deepseek", "ollama"}

\* what the service behind a backend does with a request: it answers with
\* a text and its counters, or the call fails with a message
Answer(text) == [ok |-> TRUE, text |-> text]
Failure(message) == [ok |-> FALSE, text |-> message]

Latency == PyFloat(1)

call_openai_gpt(prompt, outcome) ==
  IF outcome.ok
  THEN <<outcome.text,
         [prompt_tokens |-> PyInt(Len(prompt)),
          completion_tokens |-> PyInt(Len(outcome.text)),
          total_tokens |-> PyInt(Len(prompt) + Len(outcome.text)),
          ttfb_seconds |-> Latency]>>
  ELSE <<ErrorText("openai-gpt", outcome.text), <<>>>>

call_claude(prompt, outcome) ==
  IF outcome.ok
  THEN <<outcome.text,
         [input_tokens |-> PyInt(Len(prompt)),
          output_tokens |-> PyInt(Len(outcome.text)),
          total_tokens |-> PyInt(Len(prompt) + Len(outcome.text)),
          ttfb_seconds |-> Latency]>>
  ELSE <<ErrorText("claude", outcome.text),
         [error |-> PyStr(outcome.text), ttfb_seconds |-> PyInt(0)]>>

call_gemini(prompt, outcome) ==
  IF outcome.ok
  THEN <<outcome.text,
         [prompt_chars |-> PyInt(Len(prompt)),
          completion_chars |-> PyInt(Len(outcome.text)),
          total_chars |-> PyInt(Len(prompt) + Len(outcome.text)),
          ttfb_seconds |-> Latency]>>
  ELSE <<ErrorText("gemini", outcome.text),
         [error |-> PyStr(outcome.text), ttfb_seconds |-> PyInt(0)]>>

call_deepseek(prompt, outcome) ==
  IF outcome.ok
  THEN <<outcome.text,
         [prompt_tokens |-> PyInt(Len(prompt)),
          completion_tokens |-> PyInt(Len(outcome.text)),
          total_tokens |-> PyInt(Len(prompt) + Len(outcome.text)),
          ttfb_seconds |-> Latency]>>
  ELSE <<ErrorText("deepseek", outcome.text),
         [error |-> PyStr(outcome.text), ttfb_seconds |-> PyInt(0)]>>

call_ollama(prompt, outcome) ==
  IF outcome.ok
  THEN <<outcome.text,
         [eval_count |-> PyInt(Len(outcome.text)),
          eval_duration |-> PyInt(1),
          load_duration |-> PyInt(1),
          prompt_chars |-> PyInt(Len(prompt)),
          completion_chars |-> PyInt(Len(outcome.text)),
          total_chars |-> PyInt(Len(prompt) + Len(outcome.text)),
          ttfb_seconds |-> Latency]>>
  ELSE <<ErrorText("ollama", outcome.text),
         [error |-> PyStr(outcome.text), ttfb_seconds |-> PyInt(0)]>>

\* call_ai_model, lines 380-389
dispatch(model_name, prompt, outcome) ==
  CASE model_name = "openai-gpt" -> call_openai_gpt(prompt, outcome)
    [] model_name = "claude" -> call_claude(prompt, outcome)
    [] model_name = "gemini" -> call_gemini(prompt, outcome)
    [] model_name = "deepseek" -> call_deepseek(prompt, outcome)
    [] model_name = "ollama" -> call_ollama(prompt, outcome)

\* a pre-flight check that never raises
validate_api_keys_lenient(model_name, have) == TRUE

\* validate_api_keys: TRUE when it returns, FALSE when it raises
validate_api_keys(model_name, have) ==
  model_name \in {"openai-gpt", "claude", "gemini", "deepseek"} => model_name \in have

(***************************************************************************)
(* utils.py: the review hooks.                                             *)
(***************************************************************************)
should_debug(dm) == (dm.debug_enabled \/ dm.show_only) /\ ~dm.skip_debug

should_prompt(dm) == dm.debug_enabled /\ ~dm.skip_debug /\ ~dm.show_only

\* what the reviewer may type
Typed == {"y", "n", "r", "s"}

\* a reviewer who may type anything, and one who types what a script says
\* and y once it has run out
AnyReviewer == [free |-> TRUE, script |-> <<>>, asked |-> 0]
Scripted(script) == [free |-> FALSE, script |-> script, asked |-> 0]

\* input(): what the reviewer types when asked now
will_type(rv) ==
  IF rv.free THEN Typed
  ELSE IF rv.asked < Len(rv.script) THEN {rv.script[rv.asked + 1]} ELSE {"y"}

\* the reviewer after prompt_user, which asked or did not
after_prompt_user(rv, dm) ==
  IF should_debug(dm) /\ should_prompt(dm) /\ ~rv.free /\ rv.asked < Len(rv.script)
  THEN [rv EXCEPT !.asked = @ + 1] ELSE rv

\* a prompt_user that returns y whatever is typed
prompt_user_accepts(dm, typed_now) == {<<"y", dm>>}

\* DebugPromptManager.prompt_user: the choices it can return, each with the
\* debug manager it leaves
prompt_user(dm, typed_now) ==
  IF should_debug(dm) /\ should_prompt(dm)
  THEN {<<IF typed = "s" THEN "y" ELSE typed,
          IF typed = "s" THEN [dm EXCEPT !.skip_debug = TRUE] ELSE dm>> :
          typed \in typed_now}
  ELSE {<<"y", dm>>}

(***************************************************************************)
(* ai_connectors.py: call_ai_model, in the steps between which the         *)
(* reviewer or the backend acts.                                           *)
(***************************************************************************)
\* a test of the usage alone
gateway_is_error_usage_only(response_text, usage_info) ==
  has_error_field(usage_info)

\* a gateway that takes every response for an error
gateway_is_error_always(response_text, usage_info) == TRUE

\* lines 399-403 (and binds tighter than or)
gateway_is_error(response_text, usage_info) ==
  \/ startswith(response_text, <<"[">>) /\ contains(response_text, <<"ERROR">>)
  \/ has_error_field(usage_info)

Idle == [pc |-> "idle", caller |-> "", model_name |-> "", prompt_content |-> <<>>,
         response_text |-> <<>>, usage_info |-> <<>>, depth |-> 0]

\* made counts the calls of all the processes so far, rejected is the last
\* stored response a reviewer answered n to, in this process or one before
\* it; the rest are those of this process: the prompts put to review, the
\* backend calls, the retries
NoCalls == [made |-> 0, reviews |-> 0, backend |-> 0, retries |-> 0, outcome |-> "none",
            rejected |-> <<>>]

\* the fresh response the reviewer has just answered n to, if it was
\* stored, with the time its entry expires
rejected_now(g, manager, file, current_rejected) ==
  IF /\ g.pc = "debug_fresh"
     /\ manager # NoManager
     /\ ~gateway_is_error(g.response_text, g.usage_info)
     /\ generate_hash(manager[1], g.prompt_content, g.model_name) \in DOMAIN file
  THEN [prompt_content |-> g.prompt_content, model_name |-> g.model_name,
        response_text |-> g.response_text, cache_seed |-> manager[1],
        expires_at |->
          file[generate_hash(manager[1], g.prompt_content, g.model_name)].expires_at]
  ELSE current_rejected

\* a retry of the same key takes the rejected response out of the cache
rejected_after_retry(g, manager, current_rejected) ==
  IF /\ current_rejected # <<>>
     /\ manager # NoManager
     /\ generate_hash(manager[1], g.prompt_content, g.model_name)
          = generate_hash(current_rejected.cache_seed, current_rejected.prompt_content,
                          current_rejected.model_name)
  THEN <<>> ELSE current_rejected

\* a call that goes to the backend without the checks before it
Invoke_at_backend(caller, model_name, prompt_content) ==
  [pc |-> "backend", caller |-> caller, model_name |-> model_name,
   prompt_content |-> prompt_content, response_text |-> <<>>, usage_info |-> <<>>,
   depth |-> 0]

\* the caller's call_ai_model(model_name, prompt_content)
Invoke(caller, model_name, prompt_content) ==
  [pc |-> "validate", caller |-> caller, model_name |-> model_name,
   prompt_content |-> prompt_content, response_text |-> <<>>, usage_info |-> <<>>,
   depth |-> 0]

\* line 338: the pre-flight check
GwValidate ==
  /\ process = "running"
  /\ gw.pc = "validate"
  /\ IF validate_api_keys(gw.model_name, configured)
     THEN /\ gw' = [gw EXCEPT !.pc = "debug_prompt"]
          /\ process' = process
     ELSE /\ gw' = [gw EXCEPT !.pc = "dead"]
          /\ process' = "raised"
  /\ UNCHANGED <<cacheVars, configured, debug_manager, calls, reviewer, runVars, timing, wrapper, writers, server>>

\* lines 346-376: the review of the prompt, then the cache lookup
GwPromptReview ==
  /\ process = "running"
  /\ gw.pc = "debug_prompt"
  /\ \E answer \in prompt_user(debug_manager, will_type(reviewer)) :
       /\ debug_manager' = answer[2]
       /\ reviewer' = after_prompt_user(reviewer, debug_manager)
       /\ calls' = [calls EXCEPT !.reviews = @ + 1]
       /\ IF answer[1] = "n"
          THEN /\ process' = "exited"
               /\ gw' = [gw EXCEPT !.pc = "dead"]
          ELSE \E looked \in {IF cache_manager # NoManager
                                THEN manager_get(cache_manager[1], storage, cache_file, now,
                                                 gw.prompt_content, gw.model_name)
                                ELSE [raised |-> FALSE, result |-> None,
                                      file |-> cache_file, storage |-> storage]} :
                 IF looked.raised
                 THEN /\ process' = "raised"
                      /\ gw' = [gw EXCEPT !.pc = "dead"]
                 ELSE /\ process' = process
                      /\ IF looked.result # None
                         THEN gw' = [gw EXCEPT !.pc = "debug_cached",
                                               !.response_text = looked.result[1],
                                               !.usage_info = with_field(looked.result[2],
                                                                         "model",
                                                                         PyStr(gw.model_name))]
                         ELSE gw' = [gw EXCEPT !.pc = "backend"]
  /\ UNCHANGED <<cacheVars, configured, runVars, timing, wrapper, writers, server>>

\* lines 378-411: the backend call and the store of its result
GwBackend(outcomes) ==
  /\ process = "running"
  /\ gw.pc = "backend"
  /\ IF gw.model_name \notin BackendModels
     THEN /\ process' = "raised"
          /\ gw' = [gw EXCEPT !.pc = "dead"]
          /\ UNCHANGED <<cache_file, storage, calls>>
     ELSE \E outcome \in outcomes :
            LET response == dispatch(gw.model_name, gw.prompt_content, outcome)
                response_text == response[1]
                usage_info == with_field(response[2], "model", PyStr(gw.model_name))
                is_error == gateway_is_error(response_text, usage_info)
            IN  /\ calls' = [calls EXCEPT !.backend = @ + 1,
                                            !.outcome = IF outcome.ok THEN "answer" ELSE "failure"]
                /\ \E out \in {IF cache_manager # NoManager /\ ~is_error
                              THEN manager_set(cache_manager[1], storage, cache_file, now,
                                               gw.prompt_content, gw.model_name,
                                               response_text, usage_info)
                              ELSE Outcome(FALSE, FALSE, cache_file, storage)} :
                       /\ cache_file' = out.file
                       /\ storage' = out.storage
                       /\ process' = IF out.raised THEN "raised" ELSE process
                       /\ gw' = IF out.raised
                                THEN [gw EXCEPT !.pc = "dead"]
                                ELSE [gw EXCEPT !.pc = "debug_fresh",
                                                !.response_text = response_text,
                                                !.usage_info = usage_info]
  /\ UNCHANGED <<now, cache_manager, got, stored, ops, configured, debug_manager, reviewer, runVars, timing, wrapper, writers, server>>

\* lines 365-373 and 413-425: the review of the cached or the fresh
\* response; a retry deletes the entry and calls call_ai_model again
GwResponseReview(max_retries) ==
  /\ process = "running"
  /\ gw.pc \in {"debug_cached", "debug_fresh"}
  /\ \E answer \in prompt_user(debug_manager, will_type(reviewer)) :
       /\ answer[1] = "r" => calls.retries < max_retries
       /\ debug_manager' = answer[2]
       /\ reviewer' = after_prompt_user(reviewer, debug_manager)
       /\ CASE answer[1] = "n" ->
                 /\ process' = "exited"
                 /\ gw' = [gw EXCEPT !.pc = "dead"]
                 /\ calls' = [calls EXCEPT
                                !.rejected = rejected_now(gw, cache_manager, cache_file, @)]
                 /\ UNCHANGED <<cache_file, storage>>
            [] answer[1] = "r" ->
                 \E out \in {IF cache_manager # NoManager
                            THEN manager_delete(cache_manager[1], storage, cache_file,
                                                gw.prompt_content, gw.model_name)
                            ELSE Outcome(FALSE, FALSE, cache_file, storage)} :
                     /\ cache_file' = out.file
                     /\ storage' = out.storage
                     /\ calls' = [calls EXCEPT
                                    !.retries = @ + 1,
                                    !.rejected = rejected_after_retry(gw, cache_manager, @)]
                     /\ process' = IF out.raised THEN "raised" ELSE process
                     /\ gw' = IF out.raised
                              THEN [gw EXCEPT !.pc = "dead"]
                              ELSE [Invoke(gw.caller, gw.model_name, gw.prompt_content)
                                      EXCEPT !.depth = gw.depth + 1]
            [] OTHER ->
                 /\ process' = process
                 /\ gw' = [gw EXCEPT !.pc = "returned"]
                 /\ UNCHANGED <<cache_file, storage, calls>>
  /\ UNCHANGED <<now, cache_manager, got, stored, ops, configured, runVars, timing, wrapper, writers, server>>

\* utils.py line 168, with PROMPT_DEBUG and DEBUG_SHOW_PROMPTS_AND_RESPONSES
\* as the environment has them
DebugPromptManager(debug_enabled, show_only) ==
  [debug_enabled |-> debug_enabled, show_only |-> show_only, skip_debug |-> FALSE]

NoCheck == [called |-> FALSE, words |-> 0, erred |-> FALSE, result |-> FALSE]
NoRun == [pc |-> "none", turn |-> 0, filtered_conversation |-> <<>>,
          speaker_response |-> <<>>, next_speaker_name |-> <<>>, character |-> 0,
          check |-> NoCheck, closing_response |-> <<>>, closer_name |-> <<>>,
          erred |-> FALSE]
NoPrevious == [log |-> <<>>, erred |-> FALSE, seed |-> 0, expired |-> FALSE]
NoManagerState == <<>>
NoHistory == [runs |-> 0, previous |-> NoPrevious, started |-> 0, same_path |-> FALSE]
NoGet == [called |-> FALSE, result |-> None, key |-> <<>>]
NoTiming == [called |-> FALSE, message |-> <<>>, variation |-> 0, duration |-> 0]
NoWrapper == [pc |-> "idle", timeout |-> 0, takes |-> 0, raises |-> "nothing", elapsed |-> 0,
              timer |-> "none", seconds |-> 0, stop_event |-> FALSE, announced |-> FALSE,
              outcome |-> "none"]

\* a process that has called init_cache() where there is no cache file
CacheInit ==
  /\ now = 0
  /\ cache_file = EmptyTable
  /\ storage = Healthy
  /\ cache_manager = <<DEFAULT_CACHE_SEED>>
  /\ got = NoGet
  /\ stored = <<>>
  /\ ops = 0
  /\ process = "running"
  /\ configured = BackendModels
  /\ debug_manager = DebugPromptManager(FALSE, FALSE)
  /\ gw = Idle
  /\ calls = NoCalls
  /\ reviewer = AnyReviewer
  /\ run = NoRun
  /\ cm = NoManagerState
  /\ log_file = <<>>
  /\ history = NoHistory
  /\ timing = NoTiming
  /\ wrapper = NoWrapper
  /\ writers = NoWriters
  /\ server = NoServer

CacheNext ==
  \/ CacheConstruct
  \/ CacheGet
  \/ CacheSet
  \/ CacheDelete
  \/ CacheClear
  \/ Tick

SpecCache == CacheInit /\ [][CacheNext]_vars

(***************************************************************************)
(* A process that calls call_ai_model directly, one call after another.   *)
(***************************************************************************)
GatewayModels == BackendModels
GatewayOutcomes == {Answer(Hi), Failure(Refused)}
\* installations with the package and the key of one hosted backend (ollama,
\* the local one, needs neither)
Installations == {{model_name} : model_name \in BackendModels \ {"ollama"}}

\* a new process: the debug manager as the environment sets it, and
\* init_cache()
GatewayStart ==
  /\ process # "running"
  /\ history.runs < MaxRuns
  /\ \E debug_enabled \in BOOLEAN :
       debug_manager' = DebugPromptManager(debug_enabled, FALSE)
  /\ gw' = Idle
  /\ calls' = [NoCalls EXCEPT !.made = calls.made, !.rejected = calls.rejected]
  /\ \E out \in {manager_init(storage, cache_file, now)} :
         /\ cache_file' = out.file
         /\ storage' = out.storage
         /\ process' = IF out.raised THEN "raised" ELSE "running"
         /\ cache_manager' = IF out.raised THEN NoManager ELSE <<DEFAULT_CACHE_SEED>>
  /\ history' = [history EXCEPT !.runs = @ + 1]
  /\ UNCHANGED <<now, got, stored, ops, configured, reviewer, run, cm, log_file, timing, wrapper, writers, server>>

GwCall(models, prompts) ==
  /\ process = "running"
  /\ gw.pc = "idle"
  /\ calls.made < MaxCalls
  /\ \E model_name \in models, prompt_content \in prompts :
       gw' = Invoke("caller", model_name, prompt_content)
  /\ calls' = [calls EXCEPT !.made = @ + 1]
  /\ UNCHANGED <<cacheVars, process, configured, debug_manager, reviewer, runVars, timing, wrapper, writers, server>>

GatewayCall == GwCall(GatewayModels, CachePrompts)

GatewayBackend == GwBackend(GatewayOutcomes)

GatewayResponseReview == GwResponseReview(MaxRetries)

\* the caller takes the pair call_ai_model returned
GatewayReturn ==
  /\ process = "running"
  /\ gw.pc = "returned"
  /\ gw' = Idle
  /\ UNCHANGED <<cacheVars, process, configured, debug_manager, calls, reviewer, runVars, timing, wrapper, writers, server>>

\* the process ends
GatewayEnd ==
  /\ process = "running"
  /\ gw.pc = "idle"
  /\ process' = "ended"
  /\ UNCHANGED <<cacheVars, configured, debug_manager, gw, calls, reviewer, runVars, timing, wrapper, writers, server>>

GatewayTick == process # "running" /\ Tick

GatewayInit ==
  /\ now = 0
  /\ cache_file = EmptyTable
  /\ storage = Healthy
  /\ cache_manager = NoManager
  /\ got = NoGet
  /\ stored = <<>>
  /\ ops = 0
  /\ process = "none"
  /\ configured \in Installations
  /\ debug_manager = DebugPromptManager(FALSE, FALSE)
  /\ gw = Idle
  /\ calls = NoCalls
  /\ reviewer = AnyReviewer
  /\ run = NoRun
  /\ cm = NoManagerState
  /\ log_file = <<>>
  /\ history = NoHistory
  /\ timing = NoTiming
  /\ wrapper = NoWrapper
  /\ writers = NoWriters
  /\ server = NoServer

GatewayNext ==
  \/ GatewayStart
  \/ GatewayCall
  \/ GwValidate
  \/ GwPromptReview
  \/ GatewayBackend
  \/ GatewayResponseReview
  \/ GatewayReturn
  \/ GatewayEnd
  \/ GatewayTick

SpecGateway == GatewayInit /\ [][GatewayNext]_vars

(***************************************************************************)
(* The same process where the cache file may be damaged or out of reach.   *)
(***************************************************************************)
Unreadable == [Healthy EXCEPT !.readable = FALSE]
Unwritable == [Healthy EXCEPT !.writable = FALSE]
Garbage == [Healthy EXCEPT !.content = "garbage"]
NoEntries == [Healthy EXCEPT !.content = "no_entries"]
StorageConditions == {Healthy, Unreadable, Unwritable, Garbage, NoEntries}
StorageModels == {"ollama"}
StoragePrompts == {<<"a">>}

StorageCall == GwCall(StorageModels, StoragePrompts)

\* the environment: the file's permissions change, or something else
\* rewrites the file
StorageFault ==
  /\ storage = Healthy
  /\ \E st \in StorageConditions \ {Healthy} :
       /\ storage' = st
       /\ cache_file' = IF st.content = "table" THEN cache_file ELSE EmptyTable
  /\ UNCHANGED <<now, cache_manager, got, stored, ops>>
  /\ UNCHANGED <<gwVars, runVars, timing, wrapper, writers, server>>

StorageInit ==
  /\ now = 0
  /\ cache_file = EmptyTable
  /\ storage \in StorageConditions
  /\ cache_manager = NoManager
  /\ got = NoGet
  /\ stored = <<>>
  /\ ops = 0
  /\ process = "none"
  /\ configured = BackendModels
  /\ debug_manager = DebugPromptManager(FALSE, FALSE)
  /\ gw = Idle
  /\ calls = NoCalls
  /\ reviewer = AnyReviewer
  /\ run = NoRun
  /\ cm = NoManagerState
  /\ log_file = <<>>
  /\ history = NoHistory
  /\ timing = NoTiming
  /\ wrapper = NoWrapper
  /\ writers = NoWriters
  /\ server = NoServer

StorageNext ==
  \/ GatewayStart
  \/ StorageCall
  \/ GwValidate
  \/ GwPromptReview
  \/ GatewayBackend
  \/ GatewayResponseReview
  \/ GatewayReturn
  \/ GatewayEnd
  \/ GatewayTick
  \/ StorageFault

SpecStorage == StorageInit /\ [][StorageNext]_vars

(***************************************************************************)
(* Two processes that store through the same cache file.  Each has its own *)
(* CacheManager; CacheManager.set reads the file (_load_cache) and later   *)
(* writes what it read plus its entry, and the other process may run       *)
(* between the two.                                                        *)
(***************************************************************************)
WriterNames == {"first", "second"}

\* a process that is not in CacheManager.set
Outside == [pc |-> "outside", cache_data |-> EmptyTable, prompt |-> <<>>,
            model_name |-> "", response |-> <<>>, usage_info |-> <<>>,
            prompt_hash |-> <<>>, created_at |-> 0]

\* the entry an earlier process left in the file
EarlierEntry == cache_set(DEFAULT_CACHE_SEED, EmptyTable, 0, <<"a">>, "ollama", Hi, OkUsage)

\* set, line 122: cache_data = self._load_cache()
SetLoads(w) ==
  /\ writers.of[w].pc = "outside"
  /\ \E prompt \in CachePrompts, model_name \in CacheModels, result \in CacheResults :
       writers' = [of |-> [writers.of EXCEPT ![w] =
                             [pc |-> "loaded",
                              cache_data |-> load_cache(storage, cache_file).entries,
                              prompt |-> prompt, model_name |-> model_name,
                              response |-> result[1], usage_info |-> result[2],
                              prompt_hash |-> generate_hash(cache_manager[1], prompt, model_name),
                              created_at |-> 0]],
                   events |-> Append(writers.events, <<w, "load">>)]
  /\ UNCHANGED <<cacheVars, gwVars, runVars, timing, wrapper, server>>

\* set, lines 123-145: the entry is put into the cache_data that was loaded
\* and cache_data is written over the file
SetSaves(w) ==
  /\ writers.of[w].pc = "loaded"
  /\ LET me == writers.of[w]
     IN  cache_file' = cache_set(cache_manager[1], me.cache_data, now, me.prompt,
                                 me.model_name, me.response, me.usage_info)
  /\ storage' = written(storage)
  /\ writers' = [of |-> [writers.of EXCEPT ![w].pc = "returned", ![w].created_at = now],
                 events |-> Append(writers.events, <<w, "save">>)]
  /\ UNCHANGED <<now, cache_manager, got, stored, ops>>
  /\ UNCHANGED <<gwVars, runVars, timing, wrapper, server>>

WritersInit ==
  /\ now = 1
  /\ cache_file \in {EmptyTable, EarlierEntry}
  /\ storage = Healthy
  /\ cache_manager = <<DEFAULT_CACHE_SEED>>
  /\ got = NoGet
  /\ stored = <<>>
  /\ ops = 0
  /\ process = "running"
  /\ configured = BackendModels
  /\ debug_manager = DebugPromptManager(FALSE, FALSE)
  /\ gw = Idle
  /\ calls = NoCalls
  /\ reviewer = AnyReviewer
  /\ run = NoRun
  /\ cm = NoManagerState
  /\ log_file = <<>>
  /\ history = NoHistory
  /\ timing = NoTiming
  /\ wrapper = NoWrapper
  /\ writers = [of |-> [w \in WriterNames |-> Outside], events |-> <<>>]
  /\ server = NoServer

WritersNext ==
  \/ \E w \in WriterNames : SetLoads(w)
  \/ \E w \in WriterNames : SetSaves(w)

SpecWriters == WritersInit /\ [][WritersNext]_vars

(***************************************************************************)
(* One call_ai_model invocation followed to its end.  The process keeps    *)
(* running and the reviewer answers when asked; they type r no more than   *)
(* MaxRetries times.                                                       *)
(***************************************************************************)
RetryInit ==
  /\ now = 0
  /\ cache_file \in {EmptyTable, EarlierEntry}
  /\ storage = Healthy
  /\ cache_manager = <<DEFAULT_CACHE_SEED>>
  /\ got = NoGet
  /\ stored = <<>>
  /\ ops = 0
  /\ process = "running"
  /\ configured \in Installations
  /\ debug_manager \in {DebugPromptManager(debug_enabled, FALSE) : debug_enabled \in BOOLEAN}
  /\ gw \in {Invoke("caller", model_name, prompt_content) :
               model_name \in GatewayModels, prompt_content \in CachePrompts}
  /\ calls = [NoCalls EXCEPT !.made = 1]
  /\ reviewer = AnyReviewer
  /\ run = NoRun
  /\ cm = NoManagerState
  /\ log_file = <<>>
  /\ history = NoHistory
  /\ timing = NoTiming
  /\ wrapper = NoWrapper
  /\ writers = NoWriters
  /\ server = NoServer

RetryNext ==
  \/ GwValidate
  \/ GwPromptReview
  \/ GatewayBackend
  \/ GatewayResponseReview
  \/ GatewayReturn

SpecRetry ==
  /\ RetryInit
  /\ [][RetryNext]_vars
  /\ WF_vars(GwValidate)
  /\ WF_vars(GwPromptReview)
  /\ WF_vars(GatewayBackend)
  /\ WF_vars(GatewayResponseReview)
  /\ WF_vars(GatewayReturn)

\* C34 (retry recursion terminates): an invocation of call_ai_model whose
\* reviewer stops answering retry comes to its end, returned to the caller
\* or with the process gone; each retry is followed by one more review of
\* the prompt, and the backend is called at most once for each review of
\* the prompt; and the retries are as many as the reviewer asks for.
C34_RetryTerminates ==
  /\ <>(gw.pc \in {"idle", "dead"})
  /\ \A n \in 1..MaxRetries : (calls.retries = n) ~> (calls.reviews = n + 1)
  /\ [](/\ calls.reviews <= calls.retries + 1
        /\ calls.backend <= calls.reviews
        /\ gw.pc # "idle" => gw.depth = calls.retries
        /\ gw.pc \in {"backend", "debug_cached", "debug_fresh", "returned"}
             => calls.reviews = calls.retries + 1)

\* the reviewer has asked for as many retries as they may, each has been
\* followed by a review of the prompt and a backend call, and the call has
\* returned
C34_Witness ==
  /\ gw.pc = "returned"
  /\ gw.depth = MaxRetries
  /\ calls.reviews = MaxRetries + 1
  /\ calls.backend = MaxRetries + 1

(***************************************************************************)
(* A process that only looks up, while days pass: over a cache file with   *)
(* entries stored on day 0, readable or not.                               *)
(***************************************************************************)
\* the tables the process may find: an entry for none, one or both of two
\* keys
LookupFiles ==
  {EmptyTable, EarlierEntry,
   cache_set(DEFAULT_CACHE_SEED, EmptyTable, 0, <<"a">>, "claude", Hi, OkUsage),
   cache_set(DEFAULT_CACHE_SEED, EarlierEntry, 0, <<"a">>, "claude", Hi, OkUsage)}

LookupInit ==
  /\ now = 0
  /\ cache_file \in LookupFiles
  /\ storage \in {Healthy, Unreadable}
  /\ cache_manager = <<DEFAULT_CACHE_SEED>>
  /\ got = NoGet
  /\ stored = <<>>
  /\ ops = 0
  /\ process = "running"
  /\ configured = BackendModels
  /\ debug_manager = DebugPromptManager(FALSE, FALSE)
  /\ gw = Idle
  /\ calls = NoCalls
  /\ reviewer = AnyReviewer
  /\ run = NoRun
  /\ cm = NoManagerState
  /\ log_file = <<>>
  /\ history = NoHistory
  /\ timing = NoTiming
  /\ wrapper = NoWrapper
  /\ writers = NoWriters
  /\ server = NoServer

LookupNext ==
  \/ CacheGet
  \/ Tick

SpecLookup == LookupInit /\ [][LookupNext]_vars

\* C38 (lookup is read-only): no CacheManager.get changes the cache file or
\* what the process can do with it, whether it finds nothing, a live entry
\* or an expired one; an expired entry it found is still in the file.
C38_LookupReadOnly ==
  /\ [][UNCHANGED <<cache_file, storage>>]_vars
  /\ [](got.called =>
          /\ got.result # None => got.key \in DOMAIN cache_file
          /\ (storage = Healthy /\ got.result = None /\ got.key \in DOMAIN cache_file)
               => cache_file[got.key].expires_at <= now)

\* a lookup has found an entry that had expired, and the entry is in the
\* file
C38_Witness ==
  /\ got.called
  /\ got.result = None
  /\ got.key \in DOMAIN cache_file
  /\ cache_file[got.key].expires_at <= now
  /\ storage = Healthy
  /\ ops > 0

(***************************************************************************)
(* cache_manager.py: init_cache, called by every /generate_setup request   *)
(* of one server process (fastapi_app.py), each with the seed the request  *)
(* names; between the calls the process looks up and stores.               *)
(***************************************************************************)
\* init_cache that constructs a manager on every call
init_cache_anew(manager, cache_seed, st, file, current_time) ==
  LET out == manager_init(st, file, current_time)
  IN  [manager |-> IF out.raised THEN manager ELSE <<cache_seed>>,
       raised |-> out.raised, wrote |-> out.wrote, file |-> out.file,
       storage |-> out.storage]

\* init_cache: the module global after the call and what the call did to
\* the file; the constructor runs only while the global is None
init_cache(manager, cache_seed, st, file, current_time) ==
  IF manager = NoManager
  THEN LET out == manager_init(st, file, current_time)
       IN  [manager |-> IF out.raised THEN NoManager ELSE <<cache_seed>>,
            raised |-> out.raised, wrote |-> out.wrote, file |-> out.file,
            storage |-> out.storage]
  ELSE [manager |-> manager, raised |-> FALSE, wrote |-> FALSE, file |-> file,
        storage |-> st]

\* api_generate_setup, lines 27-30: init_cache(cache_seed); a constructor
\* that raises fails the request, the process goes on serving
ServerInitCache ==
  /\ process = "running"
  /\ ops < MaxOps
  /\ \E cache_seed \in Seeds :
       \E out \in {init_cache(cache_manager, cache_seed, storage, cache_file, now)} :
           /\ cache_manager' = out.manager
           /\ cache_file' = out.file
           /\ storage' = out.storage
           /\ server' = [calls |-> server.calls + 1,
                         cache_seed |-> cache_seed,
                         first_seed |-> IF cache_manager = NoManager /\ ~out.raised
                                        THEN cache_seed ELSE server.first_seed,
                         at |-> now]
  /\ ops' = ops + 1
  /\ UNCHANGED <<now, got, stored, process>>
  /\ UNCHANGED <<gwVars, runVars, timing, wrapper, writers>>

ServerInit ==
  /\ now = 0
  /\ cache_file = EmptyTable
  /\ storage \in {Healthy, NoEntries}
  /\ cache_manager = NoManager
  /\ got = NoGet
  /\ stored = <<>>
  /\ ops = 0
  /\ process = "running"
  /\ configured = BackendModels
  /\ debug_manager = DebugPromptManager(FALSE, FALSE)
  /\ gw = Idle
  /\ calls = NoCalls
  /\ reviewer = AnyReviewer
  /\ run = NoRun
  /\ cm = NoManagerState
  /\ log_file = <<>>
  /\ history = NoHistory
  /\ timing = NoTiming
  /\ wrapper = NoWrapper
  /\ writers = NoWriters
  /\ server = NoServer

ServerNext ==
  \/ ServerInitCache
  \/ CacheGet
  \/ CacheSet
  \/ Tick

SpecServer == ServerInit /\ [][ServerNext]_vars

\* the keys a manager with this seed computes
KeysOfSeed(seed) ==
  {generate_hash(seed, prompt, model_name) :
     prompt \in CachePrompts, model_name \in CacheModels}

\* C40 (one manager per process): once init_cache has made the manager no
\* later step of the process replaces it, whatever seed a later init_cache
\* call names; the manager carries the seed of the call that made it, and
\* every lookup and every store of the process uses that seed.
C40_OneManager ==
  /\ [][cache_manager # NoManager => cache_manager' = cache_manager]_vars
  /\ [](cache_manager # NoManager => cache_manager = <<server.first_seed>>)
  /\ [](got.called => got.key \in KeysOfSeed(server.first_seed))
  /\ [](\A t \in DOMAIN stored : t[3] = server.first_seed)
  /\ [](DOMAIN cache_file \subseteq KeysOfSeed(server.first_seed))

\* init_cache has been called again with another seed than the first call's,
\* and a day later the process has stored an entry under the first seed
C40_Witness ==
  /\ server.calls >= 2
  /\ server.cache_seed # server.first_seed
  /\ cache_manager = <<server.first_seed>>
  /\ \E t \in DOMAIN stored :
       /\ stored[t].expires_at > server.at + DEFAULT_EXPIRY_DAYS
       /\ t[3] = server.first_seed
       /\ generate_hash(server.first_seed, t[1], t[2]) \in DOMAIN cache_file

(***************************************************************************)
(* api_timeout.py: call_with_timeout and its countdown thread.  Time is    *)
(* counted in seconds; the wrapped function is known by how long it takes  *)
(* and by whether it returns or raises.                                    *)
(***************************************************************************)
MaxTimeout == 2
MaxTakes == 3

\* what func does in the end: it returns, it raises an Exception, or it
\* raises what is no Exception (KeyboardInterrupt, SystemExit)
Raises == {"nothing", "Exception", "BaseException"}

\* a wrapper that passes on what func raised
wrapped_outcome_unchanged(raises) == IF raises = "nothing" THEN "result" ELSE raises

\* how call_with_timeout ends once func has returned or raised under a
\* non-zero timeout (lines 32-46): the result, a TimeoutError in place of
\* the Exception func raised, or what no except clause has caught
wrapped_outcome(raises) ==
  CASE raises = "nothing" -> "result"
    [] raises = "Exception" -> "TimeoutError"
    [] OTHER -> raises

\* line 17-18: no timeout (0 or None), func is called as it is
direct_outcome(raises) == IF raises = "nothing" THEN "result" ELSE raises

\* lines 15-28: the call; with a timeout the countdown thread is started
\* before func is called
CallWithTimeout ==
  /\ wrapper.pc = "idle"
  /\ \E timeout \in 0..MaxTimeout, takes \in 0..MaxTakes, raises \in Raises :
       wrapper' = [NoWrapper EXCEPT
                     !.pc = IF timeout = 0 THEN "direct" ELSE "func",
                     !.timeout = timeout, !.takes = takes, !.raises = raises,
                     !.timer = IF timeout = 0 THEN "none" ELSE "counting",
                     !.seconds = timeout]
  /\ UNCHANGED <<cacheVars, gwVars, runVars, timing, writers, server>>

\* a second passes while func runs: the countdown thread, if it is still
\* in its loop, has slept and counts one down (lines 8-11)
WrapperSecond ==
  /\ wrapper.pc \in {"direct", "func"}
  /\ wrapper.elapsed < wrapper.takes
  /\ wrapper' = [wrapper EXCEPT
                   !.elapsed = @ + 1,
                   !.seconds = IF wrapper.timer = "counting" /\ @ > 0 THEN @ - 1 ELSE @]
  /\ UNCHANGED <<cacheVars, gwVars, runVars, timing, writers, server>>

\* countdown_timer, lines 12-13: the loop is over and nobody has set the
\* event; the thread prints that the call timed out, and ends
TimerAnnounces ==
  /\ wrapper.timer = "counting"
  /\ wrapper.seconds = 0
  /\ ~wrapper.stop_event
  /\ wrapper' = [wrapper EXCEPT !.timer = "done", !.announced = TRUE]
  /\ UNCHANGED <<cacheVars, gwVars, runVars, timing, writers, server>>

\* countdown_timer, lines 8 and 12: the event is set, the thread ends
TimerStops ==
  /\ wrapper.timer = "counting"
  /\ wrapper.stop_event
  /\ wrapper' = [wrapper EXCEPT !.timer = "done"]
  /\ UNCHANGED <<cacheVars, gwVars, runVars, timing, writers, server>>

\* line 18: func returns or raises, and so does call_with_timeout
DirectEnds ==
  /\ wrapper.pc = "direct"
  /\ wrapper.elapsed = wrapper.takes
  /\ wrapper' = [wrapper EXCEPT !.pc = "ended", !.outcome = direct_outcome(wrapper.raises)]
  /\ UNCHANGED <<cacheVars, gwVars, runVars, timing, writers, server>>

\* lines 32-35 and 43-44: func returns or raises an Exception, the event is
\* set
FuncEnds ==
  /\ wrapper.pc = "func"
  /\ wrapper.elapsed = wrapper.takes
  /\ wrapper.raises \in {"nothing", "Exception"}
  /\ wrapper' = [wrapper EXCEPT !.pc = "join", !.stop_event = TRUE]
  /\ UNCHANGED <<cacheVars, gwVars, runVars, timing, writers, server>>

\* lines 36-41 and 45-46: the thread is joined, the result is returned or
\* TimeoutError is raised
WrapperEnds ==
  /\ wrapper.pc = "join"
  /\ wrapper.timer = "done"
  /\ wrapper' = [wrapper EXCEPT !.pc = "ended", !.outcome = wrapped_outcome(wrapper.raises)]
  /\ UNCHANGED <<cacheVars, gwVars, runVars, timing, writers, server>>

\* lines 32 and 43: func raises what `except Exception` does not catch, and
\* call_with_timeout raises it on; the event is not set and the thread is
\* not joined
FuncEscapes ==
  /\ wrapper.pc = "func"
  /\ wrapper.elapsed = wrapper.takes
  /\ wrapper.raises = "BaseException"
  /\ wrapper' = [wrapper EXCEPT !.pc = "ended", !.outcome = wrapped_outcome(wrapper.raises)]
  /\ UNCHANGED <<cacheVars, gwVars, runVars, timing, writers, server>>

\* countdown_timer, lines 8-11, after call_with_timeout is over: the thread
\* has slept another second and counts one down
TimerSecond ==
  /\ wrapper.pc = "ended"
  /\ wrapper.timer = "counting"
  /\ wrapper.seconds > 0
  /\ wrapper' = [wrapper EXCEPT !.seconds = @ - 1]
  /\ UNCHANGED <<cacheVars, gwVars, runVars, timing, writers, server>>

TimeoutInit ==
  /\ now = 0
  /\ cache_file = EmptyTable
  /\ storage = Healthy
  /\ cache_manager = NoManager
  /\ got = NoGet
  /\ stored = <<>>
  /\ ops = 0
  /\ process = "running"
  /\ configured = BackendModels
  /\ debug_manager = DebugPromptManager(FALSE, FALSE)
  /\ gw = Idle
  /\ calls = NoCalls
  /\ reviewer = AnyReviewer
  /\ run = NoRun
  /\ cm = NoManagerState
  /\ log_file = <<>>
  /\ history = NoHistory
  /\ timing = NoTiming
  /\ wrapper = NoWrapper
  /\ writers = NoWriters
  /\ server = NoServer

TimeoutNext ==
  \/ CallWithTimeout
  \/ WrapperSecond
  \/ TimerAnnounces
  \/ TimerStops
  \/ DirectEnds
  \/ FuncEnds
  \/ WrapperEnds
  \/ FuncEscapes
  \/ TimerSecond

SpecTimeout == TimeoutInit /\ [][TimeoutNext]_vars

\* C21 (timeout bound): when call_with_timeout is given a non-zero timeout
\* and the wrapped call takes longer than that many seconds, the call ends
\* with a TimeoutError and not with the wrapped call's result.
C21_TimeoutBound ==
  (wrapper.pc = "ended" /\ wrapper.timeout > 0 /\ wrapper.takes > wrapper.timeout)
    => wrapper.outcome = "TimeoutError"

\* what the wrapper does: a wrapped call that returns has its result
\* returned however long it took (the countdown thread can do no more than
\* print that the call timed out); TimeoutError is what an exception of the
\* wrapped call is turned into, however short the call was
C21_ResultWhateverTheTime ==
  wrapper.pc = "ended" =>
    /\ wrapper.elapsed = wrapper.takes
    /\ wrapper.raises = "nothing" => wrapper.outcome = "result"
    /\ wrapper.outcome = "TimeoutError" <=>
         (wrapper.timeout > 0 /\ wrapper.raises = "Exception")

\* C32 (the countdown worker is joined): whenever call_with_timeout has
\* returned or raised, the countdown thread it started, if any, has ended.
C32_WorkerJoined ==
  wrapper.pc = "ended" => wrapper.timer \in {"none", "done"}

\* what the wrapper does: the thread has ended when call_with_timeout
\* returns its result or raises TimeoutError; the thread's own steps change
\* nothing but its countdown and what it has printed, and nothing of the
\* cache or the log changes while the wrapper runs
C32_WorkerJoinedWhenCaught ==
  /\ []((wrapper.pc = "ended" /\ wrapper.outcome \in {"result", "TimeoutError"})
          => wrapper.timer \in {"none", "done"})
  /\ [][(wrapper'.timer # wrapper.timer /\ wrapper.timer = "counting")
          => /\ wrapper'.outcome = wrapper.outcome
             /\ wrapper'.pc = wrapper.pc
             /\ wrapper'.stop_event = wrapper.stop_event]_vars
  /\ [][UNCHANGED <<cacheVars, runVars>>]_vars

\* C39 as stated (every exception becomes TimeoutError): with a non-zero
\* timeout, whatever the wrapped call raises, call_with_timeout raises
\* TimeoutError.
C39_EveryExceptionRewrapped ==
  (wrapper.pc = "ended" /\ wrapper.timeout > 0 /\ wrapper.raises # "nothing")
    => wrapper.outcome = "TimeoutError"

\* C39 (exceptions under a timeout): with a non-zero timeout, an Exception
\* of the wrapped call is raised on as TimeoutError however soon the call
\* failed, and what is no Exception (KeyboardInterrupt, SystemExit) is
\* raised on as it is; with timeout None or 0 no countdown thread is ever
\* started and the wrapped call's result or exception passes through
\* unchanged.
C39_ExceptionRewrapped ==
  /\ wrapper.timeout = 0 => wrapper.timer = "none"
  /\ wrapper.pc = "ended" =>
       /\ (wrapper.timeout > 0 /\ wrapper.raises = "Exception")
            => wrapper.outcome = "TimeoutError"
       /\ (wrapper.timeout > 0 /\ wrapper.raises = "BaseException")
            => wrapper.outcome = "BaseException"
       /\ wrapper.timeout = 0 =>
            wrapper.outcome = IF wrapper.raises = "nothing" THEN "result" ELSE wrapper.raises
       /\ wrapper.raises = "nothing" => wrapper.outcome = "result"

\* the wrapped call raised an Exception before the bound had elapsed and
\* call_with_timeout has raised TimeoutError
C39_Witness ==
  /\ wrapper.pc = "ended"
  /\ wrapper.timeout > 0
  /\ wrapper.takes < wrapper.timeout
  /\ wrapper.raises = "Exception"
  /\ wrapper.outcome = "TimeoutError"

(***************************************************************************)
(* conversation_manager.py: the speaking time of a message.  The jitter    *)
(* random.uniform(0.85, 1.15) is counted in thousandths.                   *)
(***************************************************************************)
MS_PER_WORD == 300
PERIOD_PAUSE_MS == 500
COMMA_PAUSE_MS == 200
MIN_DURATION_MS == 1000
VARIATION_LOW == 850
VARIATION_HIGH == 1150
THOUSANDTHS == 1000

\* lines 66-78: int((base_duration + punctuation_pauses) * variation)
message_duration_raw(message, variation) ==
  LET base_duration == word_count(message) * MS_PER_WORD
      punctuation_pauses == count(message, ".") * PERIOD_PAUSE_MS
                            + count(message, ",") * COMMA_PAUSE_MS
  IN  ((base_duration + punctuation_pauses) * variation) \div THOUSANDTHS

\* the duration as computed, with no minimum
calculate_message_duration_no_minimum(message, variation) ==
  message_duration_raw(message, variation)

calculate_message_duration(message, variation) ==
  LET duration == message_duration_raw(message, variation)
  IN  IF duration > MIN_DURATION_MS THEN duration ELSE MIN_DURATION_MS

\* the messages and the jitter values the function is tried on
MessageAlphabet == {"a", " ", ".", ","}
Messages == Texts(MessageAlphabet, MaxMsgLen)
Variations == {VARIATION_LOW, THOUSANDTHS, VARIATION_HIGH}

CalculateMessageDuration ==
  /\ \E message \in Messages, variation \in Variations :
       timing' = [called |-> TRUE, message |-> message, variation |-> variation,
                  duration |-> calculate_message_duration(message, variation)]
  /\ UNCHANGED <<cacheVars, gwVars, runVars, wrapper, writers, server>>

DurationInit ==
  /\ now = 0
  /\ cache_file = EmptyTable
  /\ storage = Healthy
  /\ cache_manager = NoManager
  /\ got = NoGet
  /\ stored = <<>>
  /\ ops = 0
  /\ process = "running"
  /\ configured = BackendModels
  /\ debug_manager = DebugPromptManager(FALSE, FALSE)
  /\ gw = Idle
  /\ calls = NoCalls
  /\ reviewer = AnyReviewer
  /\ run = NoRun
  /\ cm = NoManagerState
  /\ log_file = <<>>
  /\ history = NoHistory
  /\ timing = NoTiming
  /\ wrapper = NoWrapper
  /\ writers = NoWriters
  /\ server = NoServer

DurationNext == CalculateMessageDuration

SpecDuration == DurationInit /\ [][DurationNext]_vars

\* C9 (timing floor): calculate_message_duration returns at least 1000 ms
\* for every message and every jitter value between 0.85 and 1.15.
C9_TimingFloor == timing.called => timing.duration >= 1000

\* a call where the minimum decides, and a call where it does not
C9_Witness ==
  /\ timing.called
  /\ timing.duration = 1000
  /\ message_duration_raw(timing.message, timing.variation) < 1000
  /\ \E message \in Messages :
       calculate_message_duration(message, timing.variation) > 1000

(***************************************************************************)
(* conversation_manager.py: the log and the prompts.                       *)
(***************************************************************************)
SPEAKER_PAUSE_MIN == 500
SPEAKER_PAUSE_MAX == 2000

SystemCheck == <<"SystemCheck">>
GoalCheckMark == <<"[Goal", " ", "Check]">>
ClosingCheckMark == <<"[Closing", " ", "Check]">>

\* the order in which the items of a usage dictionary come: that of the
\* literals that build it, then 'model', then 'cached'
UsageKeyOrder ==
  <<"input_tokens", "output_tokens", "eval_count", "eval_duration", "load_duration",
    "prompt_tokens", "completion_tokens", "prompt_chars", "completion_chars",
    "total_tokens", "total_chars", "error", "ttfb_seconds", "model", "cached">>

usage_items(usage_info) ==
  SelectSeq(UsageKeyOrder, LAMBDA k : k \in DOMAIN usage_info)

\* isinstance(v, int): an int, or a bool (which is an int in Python)
is_int(v) == v[1] \in {"int", "bool"}

int_value(v) == IF v[1] = "bool" THEN (IF v[2] THEN 1 ELSE 0) ELSE v[2]

\* _accumulate_usage: total_usage is a list of <<key, sum>> in the order the
\* keys were first added
RECURSIVE accumulate_usage(_, _, _)
accumulate_usage(total_usage, usage_info, keys) ==
  IF keys = <<>> THEN total_usage
  ELSE LET k == Head(keys)
           v == usage_info[k]
           at == {i \in 1..Len(total_usage) : total_usage[i][1] = k}
           added ==
             IF ~is_int(v) THEN total_usage
             ELSE IF at = {} THEN Append(total_usage, <<k, int_value(v)>>)
             ELSE [i \in 1..Len(total_usage) |->
                     IF i \in at THEN <<k, total_usage[i][2] + int_value(v)>>
                     ELSE total_usage[i]]
       IN  accumulate_usage(added, usage_info, Tail(keys))

\* str(total_usage)
RECURSIVE usage_repr_items(_)
usage_repr_items(total_usage) ==
  IF total_usage = <<>> THEN <<>>
  ELSE <<"'", total_usage[1][1], "'", ":", " ", ToString(total_usage[1][2])>>
       \o (IF Len(total_usage) > 1 THEN <<",", " ">> ELSE <<>>)
       \o usage_repr_items(Tail(total_usage))

usage_repr(total_usage) == <<"{">> \o usage_repr_items(total_usage) \o <<"}">>

\* ConversationManager.__init__
ConversationManager(max_words) ==
  [max_words |-> max_words, total_word_count |-> 0, messages |-> <<>>,
   total_usage |-> <<>>, current_conversation_time |-> 0]

\* a log that puts the newest entry first
append_json_log_front(log_entry, log) == <<log_entry>> \o log

\* append_json_log on a file that holds a JSON array, or on no file
append_json_log(log_entry, log) == Append(log, log_entry)

\* log_message: the manager and the log file it leaves
log_message(c, log, sender, message, model_used, usage_info, timestamp, pause, variation) ==
  LET advances == ~startswith(sender, SystemCheck)
      start == IF advances /\ c.messages # <<>>
               THEN c.current_conversation_time + pause
               ELSE c.current_conversation_time
      message_duration == calculate_message_duration(message, variation)
      msg_log == [sender |-> sender, message |-> message, model_used |-> model_used]
      log_entry == [timestamp |-> timestamp, sender |-> sender, message |-> message,
                    model_used |-> model_used,
                    conversation_time |-> IF advances THEN <<start>> ELSE None]
      has_usage == DOMAIN usage_info # {}
  IN  [cm |-> [c EXCEPT
                 !.current_conversation_time =
                    IF advances THEN start + message_duration ELSE @,
                 !.messages = Append(@, msg_log),
                 !.total_usage =
                    IF has_usage
                    THEN accumulate_usage(@, usage_info, usage_items(usage_info))
                    ELSE @,
                 !.total_word_count = @ + word_count(message)],
       log |-> append_json_log(IF has_usage
                               THEN log_entry @@ [usage_info |-> usage_info]
                               ELSE log_entry,
                               log)]

\* a run that logs no summary
log_usage_summary_none(c, log, timestamp, pause, variation) == [cm |-> c, log |-> log]

\* _log_usage_summary
log_usage_summary(c, log, timestamp, pause, variation) ==
  log_message(c, log, <<"S", "y", "s", "t", "e", "m">>,
              <<"Token", " ", "usage", " ", "summary", ":", " ">> \o usage_repr(c.total_usage),
              "None", <<>>, timestamp, pause, variation)

\* _get_conversation_text
get_conversation_text(messages) ==
  join_lines([i \in 1..Len(messages) |->
                messages[i].sender \o <<":", " ">> \o messages[i].message])

\* the filter of lines 161-168, 221-228, 288-295 and of decide_next_speaker
filter_conversation(conversation_text) ==
  join_lines(SelectSeq(split_lines(conversation_text),
                       LAMBDA line : /\ ~startswith(line, SystemCheck \o <<":">>)
                                     /\ ~contains(line, GoalCheckMark)
                                     /\ ~contains(line, ClosingCheckMark)))

\* decide_next_speaker: its prompt (the setup and the list of names do not
\* change in a run: they are part of the template)
speaker_prompt(conversation_so_far) ==
  <<"<manager>", "\n", "<setup>", "\n", "<conversation>", "\n", "<rule>", "\n">>
  \o filter_conversation(conversation_so_far)
  \o <<"\n", "<rule>", "\n", "<characters>", "\n", "<outcome>", " ", "\n", "<who>">>

\* a fallback to the last name
chosen_speaker_last(response_text, character_names) ==
  LET chosen_name == strip(response_text)
  IN  IF \E i \in 1..Len(character_names) : character_names[i] = chosen_name
      THEN chosen_name ELSE character_names[Len(character_names)]

\* decide_next_speaker, lines 464-470
chosen_speaker(response_text, character_names) ==
  LET chosen_name == strip(response_text)
  IN  IF \E i \in 1..Len(character_names) : character_names[i] = chosen_name
      THEN chosen_name ELSE character_names[1]

\* next((c for c in characters if c.name == name), characters[0])
character_named(characters, name) ==
  IF \E i \in 1..Len(characters) : characters[i].name = name
  THEN characters[CHOOSE i \in 1..Len(characters) :
                    /\ characters[i].name = name
                    /\ \A j \in 1..(i - 1) : characters[j].name # name]
  ELSE characters[1]

\* lines 349-361
character_prompt(filtered_conversation, character) ==
  <<"<setup>", "\n", "<conversation>", "\n", "<rule>", "\n">>
  \o filtered_conversation
  \o <<"\n", "<rule>", "\n", "<you>", " ">> \o character.name
  \o <<",", " ", "<a>", " ">> \o character.position \o <<".", "\n", "<respond>">>

\* lines 387-398
closing_prompt(filtered_conversation, character) ==
  <<"<setup>", "\n", "<conversation>", "\n", "<rule>", "\n">>
  \o filtered_conversation
  \o <<"\n", "<rule>", "\n", "<you>", " ">> \o character.name
  \o <<",", " ", "<a>", " ">> \o character.position \o <<".", "\n", "<close>">>

\* check_end_conditions, lines 187-200
goal_prompt(filtered_conversation) ==
  <<"<setup>", "\n", "<so-far>", ":", "\n">> \o filtered_conversation
  \o <<"\n", "\n", "<rule>", "\n", "<goals>", "\n", "\n", "<answer>">>

\* determine_closing_message, lines 230-235
closing_check_prompt(filtered_conversation) ==
  <<"<closing>", "\n", "<if>", "\n", "\n", "<so-far>", ":", "\n">>
  \o filtered_conversation \o <<"\n", "<if>", "\n", "\n">>

\* lines 366-368
clean_reply(reply_text) ==
  LET text == strip(reply_text)
  IN  IF startswith(text, <<"\"">>) /\ endswith(text, <<"\"">>)
      THEN strip(SubSeq(text, 2, Len(text) - 1)) ELSE text

\* clean_closing_text
clean_closing_text(closing_text) ==
  LET text == strip(closing_text)
  IN  strip(IF \/ startswith(text, <<"\"">>) /\ endswith(text, <<"\"">>)
               \/ startswith(text, <<"'">>) /\ endswith(text, <<"'">>)
            THEN SubSeq(text, 2, Len(text) - 1) ELSE text)

\* check_end_conditions, line 212
goal_reached(response_text) == contains(upper(response_text), <<"Y", "E", "S">>)

\* a closer chosen as the next speaker is: the first name when in doubt
closer_name_or_first(response_text, character_names) ==
  chosen_speaker(response_text, character_names)

\* determine_closing_message, lines 245-253: the closer's name, or None
closer_name(response_text, character_names) ==
  IF contains(upper(response_text), <<"N", "O">>) THEN None
  ELSE LET chosen_speaker_name == strip(response_text)
       IN  IF \E i \in 1..Len(character_names) : character_names[i] = chosen_speaker_name
           THEN chosen_speaker_name ELSE None

(***************************************************************************)
(* conversation_manager.py: run_conversation, in the steps between which   *)
(* call_ai_model runs.  A process runs one conversation; a second process  *)
(* runs the same conversation again, over the cache file the first left.   *)
(***************************************************************************)
Al == <<"A", "l">>
Noa == <<"N", "o", "a">>
Bob == <<"B", "o", "b">>

\* the setup: the roster, the opening message, the manager's model
Characters ==
  <<[name |-> Al, position |-> <<"c", "e", "o">>, assigned_model |-> "openai-gpt"],
    [name |-> Noa, position |-> <<"c", "t", "o">>, assigned_model |-> "ollama"]>>
character_names == [i \in 1..Len(Characters) |-> Characters[i].name]
OpeningMessage == [speaker |-> Al, message |-> Hi]
manager_model == "claude"

\* what the backends answer in the first run, by the question put to
\* them: after the first turn the choice is narrower, and the manager says
\* YES to the goal check of turn MaxTurns at the latest
FirstOutcomes(caller, turn) ==
  CASE caller = "speaker" ->
         IF turn = 1 THEN {Answer(<<" ">> \o Noa), Answer(Bob), Failure(Refused)}
         ELSE {Answer(Bob)}
    [] caller = "reply" ->
         IF turn = 1
         THEN {Answer(<<"\"", "o", "k", "\"">>), Answer(<<"o", "k", " ">> \o GoalCheckMark),
               Failure(Refused)}
         ELSE {Answer(<<"\"", "o", "k", "\"">>)}
    [] caller = "goal" ->
         IF turn < MaxTurns
         THEN {Answer(<<"Y", "E", "S">>), Answer(<<"n", "o">>)}
              \cup (IF turn = 1
                    THEN {Answer(<<"n", "o", "\n", "x">>), Failure(Refused), Failure(Eyes)}
                    ELSE {})
         ELSE {Answer(<<"Y", "E", "S">>)}
    [] caller = "closing_check" ->
         {Answer(<<"N", "O">>), Answer(<<" ">> \o Al), Answer(Noa), Answer(Bob),
          Failure(Refused)}
    [] caller = "closing" -> {Answer(<<"'", "b", "y", "e", "'">>)}
    [] OTHER -> {}

\* what they answer in the second run, when asked: something else
SecondOutcomes(caller) ==
  CASE caller = "speaker" -> {Answer(Al)}
    [] caller = "reply" -> {Answer(<<"h", "m">>)}
    [] caller = "goal" -> {Answer(<<"Y", "e", "s">>)}
    [] caller = "closing_check" -> {Answer(<<"n", "o">>)}
    [] caller = "closing" -> {Answer(<<"e", "n", "d">>)}
    [] OTHER -> {}

RunOutcomes(caller, turn, runs) ==
  IF runs < 2 THEN FirstOutcomes(caller, turn) ELSE SecondOutcomes(caller)

\* speakers who follow one another with no pause
RunTimingsNoPause == {<<0, THOUSANDTHS>>}

\* the pause and the jitter drawn by log_message: the shortest pause, no
\* jitter
RunTimings == {<<SPEAKER_PAUSE_MIN, THOUSANDTHS>>}

\* an installation with every package and key, and one without those of
\* openai-gpt
RunInstallations == {BackendModels, BackendModels \ {"openai-gpt"}}

\* what the reviewer of a run types, when PROMPT_DEBUG is on
RunScripts == {<<>>, <<"s">>, <<"n">>, <<"y", "n">>, <<"y", "r">>, <<"y", "y", "n">>}

Returned(caller) ==
  /\ process = "running"
  /\ run.pc = caller
  /\ gw.pc = "returned"
  /\ gw.caller = caller

Logged(c, log, sender, message, model_used, usage_info, tm) ==
  log_message(c, log, sender, message, model_used, usage_info, now, tm[1], tm[2])

\* the top of the loop, lines 286-318: the transcript is filtered and the
\* manager is asked for the next speaker
LoopTop(r, c) ==
  LET filtered_conversation == filter_conversation(get_conversation_text(c.messages))
  IN  /\ run' = [r EXCEPT !.pc = "speaker", !.turn = @ + 1,
                          !.filtered_conversation = filtered_conversation]
      /\ gw' = Invoke("speaker", manager_model, speaker_prompt(filtered_conversation))

\* log_file_path is "meeting_log_" and get_timestamp(), which counts
\* seconds: a run that starts in the second in which the run before it
\* started (not possible once a day has passed) gets the same path, and
\* finds there the file that run left
log_file_paths(h, current_time) ==
  IF h.runs > 0 /\ h.started = current_time THEN BOOLEAN ELSE {FALSE}

\* a process starts: init_cache, the debug manager, ConversationManager,
\* then run_conversation up to its first call (lines 273-318)
RunStart ==
  /\ \/ process = "none"
     \/ process = "ended" /\ history.runs < 2
  /\ debug_manager' = DebugPromptManager(debug_manager.debug_enabled, debug_manager.show_only)
  /\ reviewer' = [reviewer EXCEPT !.asked = 0]
  /\ calls' = NoCalls
  /\ \E same_path \in log_file_paths(history, now) :
       /\ history' = [runs |-> history.runs + 1,
                      previous |-> IF history.runs = 0 THEN NoPrevious
                                   ELSE [log |-> log_file, erred |-> run.erred,
                                         seed |-> cache_manager[1],
                                         expired |-> \E k \in DOMAIN cache_file :
                                                       cache_file[k].expires_at <= now],
                      started |-> now,
                      same_path |-> same_path]
  /\ \E out \in {manager_init(storage, cache_file, now)} :
         /\ cache_file' = out.file
         /\ storage' = out.storage
         /\ IF out.raised
            THEN /\ process' = "raised"
                 /\ cache_manager' = NoManager
                 /\ UNCHANGED <<gw, run, cm, log_file>>
            ELSE /\ process' = "running"
                 /\ \E seed \in (IF history.runs = 0 THEN {DEFAULT_CACHE_SEED} ELSE Seeds) :
                      cache_manager' = <<seed>>
                 /\ \E tm \in RunTimings :
                      LET opened == Logged(ConversationManager(MaxWords),
                                           IF history'.same_path THEN log_file ELSE <<>>,
                                           OpeningMessage.speaker, OpeningMessage.message,
                                           "None", <<>>, tm)
                      IN  /\ cm' = opened.cm
                          /\ log_file' = opened.log
                          /\ LoopTop(NoRun, opened.cm)
  /\ UNCHANGED <<now, got, stored, ops, configured, timing, wrapper, writers, server>>

\* decide_next_speaker returns, the character is asked (lines 464-470 and
\* 320-363)
RunSpeakerChosen ==
  /\ Returned("speaker")
  /\ LET next_speaker_name == chosen_speaker(gw.response_text, character_names)
         character == character_named(Characters, next_speaker_name)
     IN  /\ run' = [run EXCEPT !.pc = "reply",
                               !.speaker_response = gw.response_text,
                               !.next_speaker_name = next_speaker_name,
                               !.character = CHOOSE i \in 1..Len(Characters) :
                                               Characters[i] = character,
                               !.erred = @ \/ ErrorShaped(gw.response_text, gw.usage_info)]
         /\ gw' = Invoke("reply", character.assigned_model,
                         character_prompt(run.filtered_conversation, character))
  /\ UNCHANGED <<cacheVars, process, configured, debug_manager, calls, reviewer,
                 cm, log_file, history, timing, wrapper, writers, server>>

\* the reply is logged and check_end_conditions asks the manager (lines
\* 365-374 and 157-202)
RunReplied ==
  /\ Returned("reply")
  /\ \E tm \in RunTimings :
       LET character == Characters[run.character]
           replied == Logged(cm, log_file, character.name, clean_reply(gw.response_text),
                             character.assigned_model, gw.usage_info, tm)
           filtered_conversation ==
             filter_conversation(get_conversation_text(replied.cm.messages))
       IN  /\ cm' = replied.cm
           /\ log_file' = replied.log
           /\ run' = [run EXCEPT !.pc = "goal",
                                 !.check = [called |-> FALSE,
                                            words |-> replied.cm.total_word_count,
                                            erred |-> FALSE,
                                            result |-> FALSE],
                                 !.erred = @ \/ ErrorShaped(gw.response_text, gw.usage_info)]
           /\ gw' = Invoke("goal", manager_model, goal_prompt(filtered_conversation))
  /\ UNCHANGED <<cacheVars, process, configured, debug_manager, calls, reviewer,
                 history, timing, wrapper, writers, server>>

\* check_end_conditions logs the answer and returns (lines 204-212); the
\* loop goes on, or determine_closing_message asks the manager (lines
\* 374-378 and 214-237). The turns of a run are followed up to MaxTurns
RunGoalChecked ==
  /\ Returned("goal")
  /\ \E tm \in RunTimings :
       LET checked == Logged(cm, log_file, SystemCheck,
                             GoalCheckMark \o <<" ">> \o gw.response_text,
                             manager_model, gw.usage_info, tm)
           result == goal_reached(gw.response_text)
           r == [run EXCEPT !.check = [called |-> TRUE, words |-> @.words,
                                       erred |-> ErrorShaped(gw.response_text,
                                                             gw.usage_info),
                                       result |-> result],
                            !.erred = @ \/ ErrorShaped(gw.response_text, gw.usage_info)]
           filtered_conversation ==
             filter_conversation(get_conversation_text(checked.cm.messages))
       IN  /\ cm' = checked.cm
           /\ log_file' = checked.log
           /\ IF result
              THEN /\ run' = [r EXCEPT !.pc = "closing_check"]
                   /\ gw' = Invoke("closing_check", manager_model,
                                   closing_check_prompt(filtered_conversation))
              ELSE r.turn < MaxTurns /\ LoopTop(r, checked.cm)
  /\ UNCHANGED <<cacheVars, process, configured, debug_manager, calls, reviewer,
                 history, timing, wrapper, writers, server>>

\* determine_closing_message logs the answer and returns (lines 238-253);
\* the closer is asked, or the summary is logged and the run is over
\* (lines 378-412)
RunClosingChecked ==
  /\ Returned("closing_check")
  /\ \E tm \in RunTimings :
       LET checked == Logged(cm, log_file, SystemCheck,
                             ClosingCheckMark \o <<" ">> \o gw.response_text,
                             manager_model, gw.usage_info, tm)
           closer == closer_name(gw.response_text, character_names)
           r == [run EXCEPT !.closing_response = gw.response_text,
                            !.closer_name = closer,
                            !.erred = @ \/ ErrorShaped(gw.response_text, gw.usage_info)]
           summed == log_usage_summary(checked.cm, checked.log, now, tm[1], tm[2])
       IN  IF closer # None
           THEN /\ cm' = checked.cm
                /\ log_file' = checked.log
                /\ run' = [r EXCEPT !.pc = "closing"]
                /\ gw' = Invoke("closing", character_named(Characters, closer).assigned_model,
                                closing_prompt(run.filtered_conversation,
                                               character_named(Characters, closer)))
                /\ process' = process
           ELSE /\ cm' = summed.cm
                /\ log_file' = summed.log
                /\ run' = [r EXCEPT !.pc = "done"]
                /\ gw' = Idle
                /\ process' = "ended"
  /\ UNCHANGED <<cacheVars, configured, debug_manager, calls, reviewer, history, timing, wrapper, writers, server>>

\* the closing line and the summary are logged (lines 399-412)
RunClosed ==
  /\ Returned("closing")
  /\ \E tm \in RunTimings, tm_summary \in RunTimings :
       LET closer_character == character_named(Characters, run.closer_name)
           closed == Logged(cm, log_file, closer_character.name,
                            clean_closing_text(gw.response_text),
                            closer_character.assigned_model, gw.usage_info, tm)
           summed == log_usage_summary(closed.cm, closed.log, now,
                                       tm_summary[1], tm_summary[2])
       IN  /\ cm' = summed.cm
           /\ log_file' = summed.log
           /\ run' = [run EXCEPT !.pc = "done",
                                 !.erred = @ \/ ErrorShaped(gw.response_text, gw.usage_info)]
           /\ gw' = Idle
           /\ process' = "ended"
  /\ UNCHANGED <<cacheVars, configured, debug_manager, calls, reviewer, history, timing, wrapper, writers, server>>

RunBackend == GwBackend(RunOutcomes(gw.caller, run.turn, history.runs))

RunResponseReview == GwResponseReview(MaxRetries)

\* days pass between the two runs
RunTick == process = "ended" /\ history.runs < 2 /\ Tick

RunInit ==
  /\ now = 0
  /\ cache_file = EmptyTable
  /\ storage = Healthy
  /\ cache_manager = NoManager
  /\ got = NoGet
  /\ stored = <<>>
  /\ ops = 0
  /\ process = "none"
  /\ configured \in RunInstallations
  /\ \E debug_enabled \in BOOLEAN :
       /\ debug_manager = DebugPromptManager(debug_enabled, FALSE)
       /\ reviewer \in {Scripted(script) :
                          script \in IF debug_enabled THEN RunScripts ELSE {<<>>}}
  /\ gw = Idle
  /\ calls = NoCalls
  /\ run = NoRun
  /\ cm = NoManagerState
  /\ log_file = <<>>
  /\ history = NoHistory
  /\ timing = NoTiming
  /\ wrapper = NoWrapper
  /\ writers = NoWriters
  /\ server = NoServer

RunNext ==
  \/ RunStart
  \/ GwValidate
  \/ GwPromptReview
  \/ RunBackend
  \/ RunResponseReview
  \/ RunSpeakerChosen
  \/ RunReplied
  \/ RunGoalChecked
  \/ RunClosingChecked
  \/ RunClosed
  \/ RunTick

SpecRun == RunInit /\ [][RunNext]_vars

(***************************************************************************)
(* Claims about the conversation.                                          *)
(***************************************************************************)
NameSet == {character_names[i] : i \in 1..Len(character_names)}

\* the <<sender, message>> of the log entries that come from a model
\* response: character turns, goal checks, the closing check, the closing
\* line
ModelEntries(log) ==
  LET derived == SelectSeq(log, LAMBDA e : e.model_used # "None")
  IN  [i \in 1..Len(derived) |-> <<derived[i].sender, derived[i].message>>]

IsPrefix(a, b) == Len(a) <= Len(b) /\ SubSeq(b, 1, Len(a)) = a

\* the second run, after a first run that completed with no error-shaped
\* response, with the same seed and no entry of the cache expired
Replaying ==
  /\ history.runs = 2
  /\ ~history.previous.erred
  /\ ~history.previous.expired
  /\ history.previous.seed = cache_manager[1]

\* what this run has appended to its log file
RunLog == SubSeq(log_file, Len(log_file) - Len(cm.messages) + 1, Len(log_file))

\* the run has made no backend call and has logged what the first run
\* logged, as far as it has come
Replayed ==
  /\ calls.backend = 0
  /\ IsPrefix(ModelEntries(RunLog), ModelEntries(history.previous.log))
  /\ run.pc = "done" => ModelEntries(RunLog) = ModelEntries(history.previous.log)

\* C1 (replay determinism), as stated: with the same seed and no entry
\* expired, after a first run that completed with every model response
\* non-error, a second run with the same reviewer choices makes no backend
\* call and logs the same model-derived (sender, message) entries.
C1_ReplayDeterminism_AsStated == Replaying => Replayed

\* C1 (replay determinism): the same, for a second run in which the reviewer
\* has asked for no retry.
C1_ReplayDeterminism == (Replaying /\ calls.retries = 0) => Replayed

\* a second run under review has replayed a first run that had a closing
\* line
C1_Witness ==
  /\ Replaying
  /\ calls.retries = 0
  /\ run.pc = "done"
  /\ debug_manager.debug_enabled
  /\ run.closer_name # None
  /\ Len(ModelEntries(RunLog)) >= 4

\* C6 (fallback speaker): when the manager's answer, trimmed, is no name of
\* the roster, decide_next_speaker returns the first name of the roster, and
\* the first character of the roster is the one asked, and the one whose
\* reply is logged.
C6_FallbackSpeaker ==
  (run.pc \in {"reply", "goal"} /\ strip(run.speaker_response) \notin NameSet) =>
    /\ run.next_speaker_name = character_names[1]
    /\ run.character = 1
    /\ run.pc = "reply" => /\ gw.caller = "reply"
                           /\ gw.model_name = Characters[1].assigned_model
    /\ run.pc = "goal" => cm.messages[Len(cm.messages)].sender = Characters[1].name

\* the manager named somebody who is not in the roster, and the first
\* character's reply is in the log
C6_Witness ==
  /\ run.pc = "goal"
  /\ run.speaker_response = Bob
  /\ cm.messages[Len(cm.messages)].sender = Al
  /\ Al # Noa

\* C7 (closing fallback): when the manager's answer to the closing check,
\* trimmed, is no name of the roster, determine_closing_message returns
\* None, no closing line is asked for, and what follows the '[Closing
\* Check]' entry in the log is the usage summary alone.
C7_ClosingFallback ==
  (run.pc \in {"closing", "done"} /\ strip(run.closing_response) \notin NameSet) =>
    /\ run.closer_name = None
    /\ run.pc = "done"
    /\ LET n == Len(log_file)
       IN  /\ n >= 2
           /\ log_file[n].sender = <<"S", "y", "s", "t", "e", "m">>
           /\ log_file[n - 1].sender = SystemCheck
           /\ startswith(log_file[n - 1].message, ClosingCheckMark)

\* the manager named somebody who is not in the roster as the closer
C7_Witness ==
  /\ run.pc = "done"
  /\ run.closing_response = Bob
  /\ run.closer_name = None

\* C8 (termination monotonicity): once the cumulative word count is at least
\* max_words, check_end_conditions returns true whatever the manager answers
\* to the goal check.
C8_TerminationMonotonicity ==
  (run.check.called /\ run.check.words >= cm.max_words) => run.check.result

Rejecting ==
  /\ process = "running"
  /\ gw.pc \in {"debug_prompt", "debug_cached", "debug_fresh"}
  /\ should_debug(debug_manager) /\ should_prompt(debug_manager)
  /\ will_type(reviewer) = {"n"}

\* C13 (human rejection is a kill switch): when the reviewer types n at
\* the review of a prompt or of a response, the process exits in that very
\* step with the cache file, the conversation log (in memory and on file),
\* the coordinator's state and the count of backend calls as they were; and
\* an exited process never changes any of them again, so a rejected
\* response is neither returned to the coordinator nor logged.
C13_RejectionKills ==
  /\ [][(Rejecting /\ gw' # gw)
        => /\ process' = "exited"
           /\ gw'.pc = "dead"
           /\ UNCHANGED <<cache_file, log_file, cm, run>>
           /\ UNCHANGED <<calls.made, calls.backend, calls.retries, calls.outcome>>]_vars
  /\ [][process = "exited"
        => UNCHANGED <<process, gw, cache_file, log_file, cm, run, calls>>]_vars

\* a fresh response was rejected after an earlier entry had been logged
C13_Witness ==
  /\ process = "exited"
  /\ gw.response_text # <<>>
  /\ "cached" \notin DOMAIN gw.usage_info
  /\ Len(log_file) >= 1
  /\ \A i \in 1..Len(log_file) : log_file[i].message # gw.response_text

\* a prompt was rejected before anything was looked up
C13_WitnessPrompt ==
  /\ process = "exited"
  /\ gw.response_text = <<>>
  /\ calls.backend = 1

\* the models whose package or key validate_api_keys looks for
Unconfigured ==
  /\ process = "running"
  /\ gw.pc = "validate"
  /\ gw.model_name \in {"openai-gpt", "claude", "gemini", "deepseek"} \ configured

\* C14 (pre-flight check): a call for a model whose package or key is
\* missing raises at its first step: the reviewer has not been asked, the
\* debug manager, the cache file, the count of backend calls and the
\* conversation log (in memory and on file) are as they were, and nothing
\* changes after the raise.
C14_PreFlight ==
  /\ [][(Unconfigured /\ gw' # gw)
        => /\ process' = "raised"
           /\ gw'.pc = "dead"
           /\ UNCHANGED <<cache_file, log_file, cm, run, calls, reviewer, debug_manager>>]_vars
  /\ [][process = "raised"
        => UNCHANGED <<process, gw, cache_file, log_file, cm, run, calls, reviewer,
                       debug_manager>>]_vars

\* the call for a character's reply raised, with entries in the log and in
\* the cache
C14_Witness ==
  /\ process = "raised"
  /\ gw.caller = "reply"
  /\ Len(log_file) >= 1
  /\ DOMAIN cache_file # {}

\* C18 (the persisted log is append-only and in step with the log in
\* memory): every step that writes the log file of a run leaves what the
\* file held as its beginning and adds as many elements as log_message was
\* called, and the file has the length of the in-memory log and the same
\* senders and messages in the same order.
C18_LogInStep ==
  /\ [][(log_file' # log_file /\ (process = "running" \/ history'.same_path))
        => /\ IsPrefix(log_file, log_file')
           /\ Len(log_file') - Len(log_file) =
                Len(cm'.messages) - (IF process = "running" THEN Len(cm.messages) ELSE 0)]_vars
  /\ [](process = "running"
          => /\ Len(log_file) = Len(cm.messages)
             /\ \A i \in 1..Len(cm.messages) :
                  /\ log_file[i].sender = cm.messages[i].sender
                  /\ log_file[i].message = cm.messages[i].message)

\* the part of C18 that is about appending
C18_AppendOnly ==
  [][(log_file' # log_file /\ (process = "running" \/ history'.same_path))
     => /\ IsPrefix(log_file, log_file')
        /\ Len(log_file') - Len(log_file) =
             Len(cm'.messages) - (IF process = "running" THEN Len(cm.messages) ELSE 0)
        /\ \A i \in 1..Len(cm'.messages) :
             LET e == log_file'[Len(log_file') - Len(cm'.messages) + i]
             IN  e.sender = cm'.messages[i].sender /\ e.message = cm'.messages[i].message]_vars

\* the sender of the usage summary
System == <<"S", "y", "s", "t", "e", "m">>

\* the entries the claims call system and self-check entries
IsSystemEntry(e) == e.sender = SystemCheck \/ e.sender = System

\* C19 (system and self-check entries are outside the conversation clock):
\* every SystemCheck entry and the System usage summary is logged with no
\* conversation time, and a step that logs only such entries leaves
\* current_conversation_time as it was.
C19_SystemEntriesUntimed ==
  /\ [](\A i \in 1..Len(log_file) :
          IsSystemEntry(log_file[i]) => log_file[i].conversation_time = None)
  /\ [][(/\ process = "running" /\ process' \in {"running", "ended"}
         /\ Len(log_file') > Len(log_file)
         /\ \A i \in (Len(log_file) + 1)..Len(log_file') : IsSystemEntry(log_file'[i]))
        => cm'.current_conversation_time = cm.current_conversation_time]_vars

\* the part of C19 about the self checks: SystemCheck entries carry no
\* conversation time, and logging one leaves the clock as it was
C19_SelfChecksUntimed ==
  /\ [](\A i \in 1..Len(log_file) :
          log_file[i].sender = SystemCheck => log_file[i].conversation_time = None)
  /\ [][(/\ process = "running" /\ process' \in {"running", "ended"}
         /\ Len(log_file') > Len(log_file)
         /\ \A i \in (Len(log_file) + 1)..Len(log_file') : log_file'[i].sender = SystemCheck)
        => cm'.current_conversation_time = cm.current_conversation_time]_vars

\* the lines of the messages of the self-check entries logged so far
SelfCheckLines(only_single_line) ==
  UNION {LET lines == split_lines(cm.messages[i].message)
         IN  IF only_single_line /\ Len(lines) > 1 THEN {}
             ELSE {lines[j] : j \in 1..Len(lines)} \ {<<>>} :
         i \in {i \in 1..Len(cm.messages) : cm.messages[i].sender = SystemCheck}}

\* some line of the prompt ends with one of these lines
InPrompt(lines) ==
  \E l \in lines :
    LET prompt_lines == split_lines(gw.prompt_content)
    IN  \E j \in 1..Len(prompt_lines) : endswith(prompt_lines[j], l)

\* C20 (self-check exclusion): no line of the message of a self-check
\* entry, the first or a later one, is in the prompt of a call made after
\* the entry was logged.
C20_SelfCheckExclusion ==
  (process = "running" /\ gw.pc # "idle") => ~InPrompt(SelfCheckLines(FALSE))

\* the part of C20 about self-check entries of one line
C20_SingleLineExcluded ==
  (process = "running" /\ gw.pc # "idle") => ~InPrompt(SelfCheckLines(TRUE))

\* C23 (the termination and closing logic detect the error sentinel): when
\* the answer to the goal check is an error sentinel, check_end_conditions
\* returns false whatever the text of the error message; and when the answer
\* to the closing check is an error sentinel, determine_closing_message
\* returns None and no closing line is asked for.
C23_SentinelDetected ==
  /\ (run.check.called /\ run.check.erred) => ~run.check.result
  /\ (/\ run.pc \in {"closing", "done"}
      /\ startswith(run.closing_response, <<"[">>)
      /\ contains(run.closing_response, <<"ERROR">>))
       => run.closer_name = None /\ run.pc = "done"

\* the part of C23 about the closing check, with the roster of this model,
\* in which no name has the shape of an error sentinel
C23_ClosingSentinel ==
  (/\ run.pc \in {"closing", "done"}
   /\ startswith(run.closing_response, <<"[">>)
   /\ contains(run.closing_response, <<"ERROR">>))
    => run.closer_name = None /\ run.pc = "done"

\* the closing check failed and the run ended with no closing line
C23_ClosingSentinelWitness ==
  /\ run.pc = "done"
  /\ run.closing_response = ErrorText(manager_model, Refused)
  /\ run.closer_name = None

\* the entries of a kind in the in-memory log
CountEntries(Kind(_)) == Cardinality({i \in 1..Len(cm.messages) : Kind(cm.messages[i])})
IsGoalCheck(msg) == msg.sender = SystemCheck /\ startswith(msg.message, GoalCheckMark)
IsCharacterEntry(msg) == msg.sender \in NameSet /\ msg.model_used # "None"

\* C24 (opening state): the step that starts a run appends the scripted
\* opening message, with the sender and the text of the meeting setup, no
\* model and the conversation time 0, as the first entry of the run's log,
\* and leaves the first model call no further than invoked; the entry stays
\* the first; and whenever the manager is asked the goal check, as many
\* character replies have been logged as turns were started, one more than
\* goal checks, the last entry being the reply of the speaker selected in
\* this turn.
C24_OpeningState ==
  /\ [][(process # "running" /\ process' = "running")
        => /\ cm'.messages = <<[sender |-> OpeningMessage.speaker,
                                message |-> OpeningMessage.message,
                                model_used |-> "None"]>>
           /\ log_file'[Len(log_file')].conversation_time = <<0>>
           /\ calls'.backend = 0
           /\ gw'.pc = "validate" /\ gw'.caller = "speaker"]_vars
  /\ [](process = "running"
          => /\ Len(cm.messages) >= 1 /\ Len(log_file) >= Len(cm.messages)
             /\ cm.messages[1].sender = OpeningMessage.speaker
             /\ cm.messages[1].message = OpeningMessage.message
             /\ RunLog[1].sender = OpeningMessage.speaker
             /\ RunLog[1].message = OpeningMessage.message
             /\ RunLog[1].model_used = "None"
             /\ RunLog[1].conversation_time = <<0>>)
  /\ []((process = "running" /\ gw.caller = "goal")
          => /\ run.turn >= 1
             /\ CountEntries(IsCharacterEntry) = run.turn
             /\ CountEntries(IsGoalCheck) = run.turn - 1
             /\ cm.messages[Len(cm.messages)].sender = run.next_speaker_name)

\* the first goal check of a second run is being asked, after the opening
\* message and one reply
C24_Witness ==
  /\ process = "running"
  /\ history.runs = 2
  /\ gw.caller = "goal"
  /\ run.turn = 1
  /\ Len(cm.messages) = 2
  /\ cm.messages[1].sender = Al /\ cm.messages[1].message = Hi
  /\ RunLog[1].conversation_time = <<0>>

\* the lines 'sender: message' of the entries that are no self checks, in
\* the order of the log
RECURSIVE ConversationLines(_)
ConversationLines(messages) ==
  IF messages = <<>> THEN <<>>
  ELSE (IF messages[1].sender = SystemCheck THEN <<>>
        ELSE split_lines(messages[1].sender \o <<":", " ">> \o messages[1].message))
       \o ConversationLines(Tail(messages))

\* the elements of a are among those of b, in the same order
RECURSIVE IsSubsequence(_, _)
IsSubsequence(a, b) ==
  IF a = <<>> THEN TRUE
  ELSE IF b = <<>> THEN FALSE
  ELSE IF a[1] = b[1] THEN IsSubsequence(Tail(a), Tail(b))
  ELSE IsSubsequence(a, Tail(b))

HasMark(line) ==
  \/ startswith(line, SystemCheck \o <<":">>)
  \/ contains(line, GoalCheckMark)
  \/ contains(line, ClosingCheckMark)

\* the order in which one call follows another in a run
CallOrder ==
  {<<"", "speaker">>, <<"speaker", "reply">>, <<"reply", "goal">>, <<"goal", "speaker">>,
   <<"goal", "closing_check">>, <<"closing_check", "closing">>, <<"closing_check", "">>,
   <<"closing", "">>}

\* one call at a time, in the order selection, reply, goal check: a call
\* for another purpose starts only when the call before it has returned
OneCallAtATime ==
  [][(process = "running" /\ process' \in {"running", "ended"} /\ gw'.caller # gw.caller)
     => /\ gw.pc \in {"returned", "idle"}
        /\ <<gw.caller, gw'.caller>> \in CallOrder]_vars

\* C25 (each turn's prompt reflects the log as it is): the prompt of every
\* speaker selection and of every character reply has, among its lines and
\* in the order of the log, the line of every entry logged so far that is
\* no self check (the opening message and every reply); and the calls of a
\* run are made one at a time, in the order selection, reply, goal check.
C25_PromptReflectsLog ==
  /\ []((process = "running" /\ gw.caller \in {"speaker", "reply"})
          => IsSubsequence(ConversationLines(cm.messages), split_lines(gw.prompt_content)))
  /\ OneCallAtATime

\* the part of C25 that holds: the same for the lines in which the
\* transcript filter finds none of its marks
C25_UnmarkedLinesInPrompt ==
  /\ []((process = "running" /\ gw.caller \in {"speaker", "reply"})
          => IsSubsequence(SelectSeq(ConversationLines(cm.messages),
                                     LAMBDA line : ~HasMark(line)),
                           split_lines(gw.prompt_content)))
  /\ OneCallAtATime

\* the speaker of a second turn is being selected, with two replies' worth
\* of conversation in the prompt
C25_UnmarkedWitness ==
  /\ process = "running"
  /\ gw.caller = "speaker"
  /\ run.turn = 2
  /\ Len(ConversationLines(cm.messages)) = 2
  /\ \A i \in 1..2 : ~HasMark(ConversationLines(cm.messages)[i])

\* the position in the log of the reply of the last turn
LastReply ==
  CHOOSE n \in 1..Len(cm.messages) :
    /\ IsCharacterEntry(cm.messages[n])
    /\ \A k \in (n + 1)..Len(cm.messages) : ~IsCharacterEntry(cm.messages[k])

\* C26 (the closing prompt is built from the log as it is): the prompt
\* that asks for the closing line has, among its lines and in the order of
\* the log, the line of every entry logged before the call that is no self
\* check, the reply of the last turn of the loop among them.
C26_ClosingPromptCurrent ==
  (process = "running" /\ gw.caller = "closing")
    => IsSubsequence(ConversationLines(cm.messages), split_lines(gw.prompt_content))

\* what the closing prompt does hold: the lines, with none of the filter's
\* marks, of the entries logged before the reply of the last turn
C26_ClosingPromptOfLastTurn ==
  (process = "running" /\ gw.caller = "closing")
    => IsSubsequence(SelectSeq(ConversationLines(SubSeq(cm.messages, 1, LastReply - 1)),
                               LAMBDA line : ~HasMark(line)),
                     split_lines(gw.prompt_content))

\* the run is over and the log ends with the closing check, one closing
\* line of the character and the usage summary
ClosedBy(name) ==
  LET n == Len(cm.messages)
      character == character_named(Characters, name)
  IN  /\ n >= 3
      /\ cm.messages[n].sender = System
      /\ cm.messages[n - 1].sender = name
      /\ cm.messages[n - 1].model_used = character.assigned_model
      /\ cm.messages[n - 2].sender = SystemCheck
      /\ startswith(cm.messages[n - 2].message, ClosingCheckMark)

\* C27 (closing speaker selection): when the manager's answer to the
\* closing check, trimmed, is a name of the roster, whatever its letters,
\* that character is the closer, the closing line is asked of the
\* character's model, and the finished run has logged exactly one closing
\* entry, with that character as sender and the character's model.
C27_ClosingSpeaker ==
  (run.pc \in {"closing", "done"} /\ strip(run.closing_response) \in NameSet) =>
    /\ run.closer_name = strip(run.closing_response)
    /\ run.pc = "closing" =>
         /\ gw.caller = "closing"
         /\ gw.model_name = character_named(Characters, run.closer_name).assigned_model
    /\ run.pc = "done" => ClosedBy(run.closer_name)

\* the part of C27 that holds: the same for the names of the roster without
\* the letters N, O in a row, in any case
C27_ClosingSpeakerWithoutNo ==
  (/\ run.pc \in {"closing", "done"}
   /\ strip(run.closing_response) \in NameSet
   /\ ~contains(upper(run.closing_response), <<"N", "O">>)) =>
    /\ run.closer_name = strip(run.closing_response)
    /\ run.pc = "closing" =>
         /\ gw.caller = "closing"
         /\ gw.model_name = character_named(Characters, run.closer_name).assigned_model
    /\ run.pc = "done" => ClosedBy(run.closer_name)

\* the manager named Al, with a blank before the name, and Al's closing
\* line is in the log of the finished run
C27_WithoutNoWitness ==
  /\ run.pc = "done"
  /\ run.closing_response = <<" ">> \o Al
  /\ ClosedBy(Al)

\* the words of the entries that are neither self checks nor the usage
\* summary
RECURSIVE ConversationWords(_)
ConversationWords(messages) ==
  IF messages = <<>> THEN 0
  ELSE (IF IsSystemEntry(messages[1]) THEN 0 ELSE word_count(messages[1].message))
       + ConversationWords(Tail(messages))

\* C28 (run termination): every run reaches Done although the goal check
\* never answers YES, because the limits stop the loop. Every reply having
\* a word at least, the loop then makes no more turns than max_words: it
\* starts no turn once the conversation has max_words words or more.
C28_LimitsStopTheLoop ==
  (process = "running" /\ run.pc = "speaker" /\ run.turn >= 2)
    => ConversationWords(cm.messages) < cm.max_words

\* the words of all the entries
RECURSIVE AllWords(_)
AllWords(messages) ==
  IF messages = <<>> THEN 0
  ELSE word_count(messages[1].message) + AllWords(Tail(messages))

\* C29 (the running word count leaves the self checks out): after any
\* sequence of log_message calls total_word_count is the sum of the word
\* counts of the entries whose sender is neither SystemCheck nor System.
C29_WordCountExcludesSystem ==
  cm # NoManagerState => cm.total_word_count = ConversationWords(cm.messages)

\* what total_word_count is: the sum of the word counts of all the
\* entries, the self checks and the usage summary among them
C29_WordCountOfAll ==
  cm # NoManagerState => cm.total_word_count = AllWords(cm.messages)

\* the entries of this run that carry a conversation time
TimedEntries == SelectSeq(RunLog, LAMBDA e : e.conversation_time # None)

\* C30 (monotonic conversation clock): within a run
\* current_conversation_time never decreases; of two successive entries
\* that carry a conversation time the later starts after the earlier, and
\* no sooner than 500 ms after the earlier started plus the time the
\* earlier message takes to say; and the clock is never behind the end of
\* the last such message.
C30_MonotonicClock ==
  /\ [][(process = "running" /\ process' \in {"running", "ended"})
        => cm'.current_conversation_time >= cm.current_conversation_time]_vars
  /\ [](process \in {"running", "ended"} =>
          /\ \A i \in 1..(Len(TimedEntries) - 1) :
               LET earlier == TimedEntries[i]
                   later == TimedEntries[i + 1]
               IN  /\ later.conversation_time[1] > earlier.conversation_time[1]
                   /\ \E tm \in RunTimings :
                        later.conversation_time[1] >=
                          earlier.conversation_time[1]
                          + calculate_message_duration(earlier.message, tm[2]) + 500
          /\ TimedEntries # <<>> =>
               LET last == TimedEntries[Len(TimedEntries)]
               IN  \E tm \in RunTimings :
                     cm.current_conversation_time >=
                       last.conversation_time[1]
                       + calculate_message_duration(last.message, tm[2]))

\* a finished run with the opening message, a reply and a closing line,
\* and self checks logged between them
C30_Witness ==
  /\ run.pc = "done"
  /\ Len(TimedEntries) >= 4
  /\ Len(RunLog) >= Len(TimedEntries) + 2
  /\ TimedEntries[1].conversation_time = <<0>>
  /\ TimedEntries[2].conversation_time[1] >= 1500

\* the keys of total_usage
UsageTotalKeys == {cm.total_usage[i][1] : i \in 1..Len(cm.total_usage)}

\* total_usage[k]
UsageTotal(k) ==
  LET at == {i \in 1..Len(cm.total_usage) : cm.total_usage[i][1] = k}
  IN  cm.total_usage[CHOOSE i \in at : TRUE][2]

\* the entries of this run logged with a usage dictionary that has an
\* int (or bool) under k
IntEntries(k) ==
  SelectSeq(RunLog, LAMBDA e : /\ "usage_info" \in DOMAIN e
                                /\ k \in DOMAIN e.usage_info
                                /\ is_int(e.usage_info[k]))

RECURSIVE SumOf(_, _)
SumOf(entries, k) ==
  IF entries = <<>> THEN 0
  ELSE int_value(entries[1].usage_info[k]) + SumOf(Tail(entries), k)

\* C33 (usage accumulation): the fields of a usage dictionary that are no
\* token or character counts (the latency ttfb_seconds, the model name, the
\* error text) never appear among the keys of total_usage.
C33_NoLatencyInTotals ==
  cm # NoManagerState => UsageTotalKeys \cap {"ttfb_seconds", "model", "error"} = {}

\* what total_usage is: its keys are those under which some logged usage
\* dictionary has an int or a bool, and under each the sum of those values
\* (True as 1); a value of another type adds nothing
C33_UsageSums ==
  (cm # NoManagerState /\ process \in {"running", "ended"}) =>
    /\ UsageTotalKeys = {k \in {UsageKeyOrder[i] : i \in DOMAIN UsageKeyOrder} : IntEntries(k) # <<>>}
    /\ \A k \in UsageTotalKeys : UsageTotal(k) = SumOf(IntEntries(k), k)

IsClosingCheck(msg) == msg.sender = SystemCheck /\ startswith(msg.message, ClosingCheckMark)

\* a line a character of the roster spoke, with that character's model
IsRosterLine(msg) ==
  \E i \in 1..Len(Characters) :
    msg.sender = Characters[i].name /\ msg.model_used = Characters[i].assigned_model

IsOpening(msg) ==
  /\ msg.sender = OpeningMessage.speaker
  /\ msg.message = OpeningMessage.message
  /\ msg.model_used = "None"

IsSummary(msg) == msg.sender = System /\ msg.model_used = "None"

\* C35 (log shape of a completed run): the entries a completed run has
\* appended are the opening entry, then one or more pairs of a character's
\* line and the SystemCheck goal check that follows it, then the one
\* SystemCheck closing check, then at most one closing line, then the
\* System usage summary; every character's line and the closing line has a
\* name of the roster as sender and that character's assigned model.
C35_LogShape ==
  run.pc = "done" =>
    LET n == Len(RunLog)
    IN  /\ n >= 5
        /\ IsOpening(RunLog[1])
        /\ IsSummary(RunLog[n])
        /\ \E c \in {n - 2, n - 1} :
             /\ IsClosingCheck(RunLog[c])
             /\ c = n - 2 => IsRosterLine(RunLog[n - 1])
             /\ c % 2 = 0
             /\ \A i \in 2..(c - 1) :
                  IF i % 2 = 0 THEN IsRosterLine(RunLog[i]) ELSE IsGoalCheck(RunLog[i])
        /\ Cardinality({i \in 1..n : IsClosingCheck(RunLog[i])}) = 1
        /\ Cardinality({i \in 1..n : IsSummary(RunLog[i])}) = 1
        /\ Cardinality({i \in 1..n : IsGoalCheck(RunLog[i])})
             = Cardinality({i \in 2..n : IsRosterLine(RunLog[i])})
               - (IF IsClosingCheck(RunLog[n - 2]) THEN 1 ELSE 0)

\* a completed run of two turns with a closing line
C35_Witness ==
  /\ run.pc = "done"
  /\ Len(RunLog) = 8
  /\ IsClosingCheck(RunLog[6])
  /\ IsRosterLine(RunLog[7])

(***************************************************************************)
(* Claims about the gateway and the backends.                              *)
(***************************************************************************)
\* C4 (no error caching): when the backend result of a call_ai_model
\* invocation has the error shape, a lookup with the invocation's prompt,
\* model and seed returns None once the backend step is done; and no entry
\* of the cache file has the error shape.
C4_NoErrorCaching ==
  /\ (/\ process = "running"
      /\ gw.pc = "debug_fresh"
      /\ ErrorShaped(gw.response_text, gw.usage_info)
      /\ cache_manager # NoManager)
       => cache_get(cache_manager[1], cache_file, now, gw.prompt_content, gw.model_name) = None
  /\ \A k \in DOMAIN cache_file :
       ~ErrorShaped(cache_file[k].response, cache_file[k].usage_info)

\* a failed call is under review while the cache holds another call's reply
C4_Witness ==
  /\ process = "running"
  /\ gw.pc = "debug_fresh"
  /\ ErrorShaped(gw.response_text, gw.usage_info)
  /\ calls.outcome = "failure"
  /\ cache_file # EmptyTable

\* C10 (error sentinel shape): a backend whose call fails returns the text
\* '[<modelId> ERROR]: <message>' together with a usage that has an error
\* field.
C10_ErrorSentinelShape ==
  (process = "running" /\ gw.pc = "debug_fresh" /\ calls.outcome = "failure") =>
    /\ \E message \in {Refused} : gw.response_text = ErrorText(gw.model_name, message)
    /\ has_error_field(gw.usage_info)

\* the entry the cache file holds for the call in progress, and whether a
\* lookup finds it
CallHash == generate_hash(cache_manager[1], gw.prompt_content, gw.model_name)
CallEntryLive ==
  /\ cache_manager # NoManager
  /\ CallHash \in DOMAIN cache_file
  /\ cache_file[CallHash].expires_at > now

\* C11 (cache hit short-circuits the backend): when the cache holds an
\* unexpired entry for the prompt, the model and the seed of a call whose
\* prompt the reviewer lets pass, the call takes the entry's response, with
\* the entry's usage tagged cached = true and with the model; when the
\* reviewer then asks for no retry, that response is returned; and neither
\* step calls the backend or writes the cache.
C11_CacheHitShortCircuits ==
  [][/\ (/\ process = "running" /\ gw.pc = "debug_prompt" /\ CallEntryLive
         /\ process' = "running")
        => /\ gw'.pc = "debug_cached"
           /\ gw'.response_text = cache_file[CallHash].response
           /\ gw'.usage_info =
                [k \in DOMAIN cache_file[CallHash].usage_info \cup {"cached", "model"} |->
                   IF k = "cached" THEN PyBool(TRUE)
                   ELSE IF k = "model" THEN PyStr(gw.model_name)
                   ELSE cache_file[CallHash].usage_info[k]]
           /\ cache_file' = cache_file
           /\ calls'.backend = calls.backend
     /\ (/\ process = "running" /\ gw.pc = "debug_cached"
         /\ process' = "running" /\ calls'.retries = calls.retries)
        => /\ gw'.pc = "returned"
           /\ gw'.response_text = gw.response_text
           /\ gw'.usage_info = gw.usage_info
           /\ cache_file' = cache_file
           /\ calls'.backend = calls.backend]_vars

\* a reviewer has let a cached response pass, and it is returned
C11_Witness ==
  /\ process = "running"
  /\ gw.pc = "returned"
  /\ "cached" \in DOMAIN gw.usage_info
  /\ debug_manager.debug_enabled /\ ~debug_manager.skip_debug
  /\ CallEntryLive

\* C12 (retry protocol): when the reviewer answers retry to a cached or a
\* fresh response, the entry of the call's key is gone from the cache file
\* before the next attempt starts; the next attempt finds nothing in the
\* cache and goes to the backend; and what a call that was retried returns
\* is a response the backend produced after the retry, not one read from
\* the cache.
C12_RetryProtocol ==
  /\ [][(/\ process = "running" /\ gw.pc \in {"debug_cached", "debug_fresh"}
         /\ calls'.retries = calls.retries + 1)
        => /\ gw'.pc = "validate"
           /\ gw'.depth = gw.depth + 1
           /\ gw'.prompt_content = gw.prompt_content /\ gw'.model_name = gw.model_name
           /\ cache_manager # NoManager => CallHash \notin DOMAIN cache_file']_vars
  /\ []((gw.depth > 0 /\ gw.pc \in {"validate", "debug_prompt"} /\ cache_manager # NoManager)
          => CallHash \notin DOMAIN cache_file)
  /\ [][(process = "running" /\ gw.depth > 0 /\ gw.pc = "debug_prompt" /\ process' = "running")
        => gw'.pc = "backend"]_vars
  /\ []((gw.depth > 0 /\ gw.pc \in {"debug_fresh", "returned"})
          => /\ "cached" \notin DOMAIN gw.usage_info
             /\ calls.backend > 0
             /\ \E outcome \in GatewayOutcomes :
                  gw.response_text = dispatch(gw.model_name, gw.prompt_content, outcome)[1])

\* a cached response was retried and the backend's new response is returned
C12_Witness ==
  /\ process = "running"
  /\ gw.pc = "returned"
  /\ gw.depth > 0
  /\ calls.backend = 1
  /\ CallEntryLive

\* C15 (cache fail-open): no cache operation raises to its caller, whatever
\* the state of the cache file: the process, which in this specification
\* calls a model that needs no key, never dies of an exception.
C15_CacheFailOpen == process # "raised"

\* the part of C15 about loads and stores: a lookup on a file that cannot
\* be read or holds no JSON finds nothing, and a store that could not write
\* leaves the file alone and the response goes on to the review
C15_LoadAndStoreFailOpen ==
  /\ [][(/\ process = "running" /\ gw.pc = "debug_prompt"
         /\ (~storage.readable \/ storage.content = "garbage")
         /\ process' = "running")
        => gw'.pc = "backend"]_vars
  /\ [][(/\ process = "running" /\ gw.pc = "backend"
         /\ (~storage.writable \/ storage.content = "no_entries"))
        => /\ process' = "running"
           /\ gw'.pc = "debug_fresh"
           /\ gw'.response_text # <<>>
           /\ UNCHANGED <<cache_file, storage>>]_vars

(***************************************************************************)
(* Claims about the cache.                                                 *)
(***************************************************************************)
\* the prompts, grouped by what they are after normalization
PromptClasses ==
  {{q \in Prompts : normalize_prompt(q) = normalize_prompt(p)} : p \in Prompts}

\* a store that has not expired, been invalidated, overwritten or cleared,
\* made under the seed the cache manager has now
LiveStore(t) ==
  /\ cache_manager # NoManager
  /\ t \in DOMAIN stored
  /\ t[3] = cache_manager[1]
  /\ stored[t].expires_at > now
  /\ ~stored[t].deleted

\* generate_hash of every prompt, model and seed the claims look up,
\* computed once
HashOf ==
  [s \in Seeds, m \in CacheModels, p \in Prompts \cup CachePrompts |->
     generate_hash(s, p, m)]

\* cache_manager.get(prompt, model_name) in the current state
Lookup(prompt, model_name) ==
  cache_get_hash(cache_file, now, HashOf[cache_manager[1], model_name, prompt])

\* C2: prompts that are equal after normalization, with the same model and
\* seed, get the same answer from lookup in every state of the cache; and a
\* lookup of a prompt equal after normalization to one whose store is live
\* and was not pruned is a hit.
C2_CacheDeterminism ==
  cache_manager # NoManager =>
    \A c \in PromptClasses, m \in CacheModels :
      LET p1 == CHOOSE p \in c : TRUE
          r1 == Lookup(p1, m)
      IN  /\ \A p2 \in c : Lookup(p2, m) = r1
          /\ (\E t \in DOMAIN stored :
                 /\ LiveStore(t) /\ ~stored[t].pruned
                 /\ t[2] = m /\ normalize_prompt(t[1]) = normalize_prompt(p1))
               => r1 # None

\* C2 witness: a prompt was stored and the lookup of a different prompt,
\* equal to it after normalization, is a hit.
C2_Witness ==
  /\ cache_manager # NoManager
  /\ \E t \in DOMAIN stored, p \in Prompts :
       /\ p # t[1]
       /\ normalize_prompt(p) = normalize_prompt(t[1])
       /\ LiveStore(t)
       /\ Lookup(p, t[2]) = <<stored[t].response,
                               ("cached" :> PyBool(TRUE)) @@ stored[t].usage_info>>

\* C3 as stated: after store(P, M, R, U) every later lookup(P, M) under the
\* same seed returns (R, U with cached = true) until the entry expires, is
\* invalidated, is overwritten or the cache is cleared.
C3_ReadYourWrites_AsStated ==
  \A t \in DOMAIN stored :
    LiveStore(t) =>
      Lookup(t[1], t[2]) = <<stored[t].response,
                             ("cached" :> PyBool(TRUE)) @@ stored[t].usage_info>>

\* C3 amended: the same, until also the construction of a cache manager
\* prunes the entry because it has the shape of an error.
C3_ReadYourWrites ==
  \A t \in DOMAIN stored :
    (LiveStore(t) /\ ~stored[t].pruned) =>
      Lookup(t[1], t[2]) = <<stored[t].response,
                             ("cached" :> PyBool(TRUE)) @@ stored[t].usage_info>>

\* C3 witness: a lookup has returned what was stored a day or more ago,
\* tagged cached.
C3_Witness ==
  \E t \in DOMAIN stored :
    /\ LiveStore(t)
    /\ stored[t].expires_at < now + DEFAULT_EXPIRY_DAYS
    /\ got.called
    /\ got.result = <<stored[t].response,
                      ("cached" :> PyBool(TRUE)) @@ stored[t].usage_info>>
    /\ got.result = Lookup(t[1], t[2])

\* C5: lookup treats an entry whose expires_at is not later than the current
\* time as absent, and the pruning pass leaves no such entry in the file.
C5_Expiry ==
  /\ [](cache_manager # NoManager =>
          \A p \in Prompts \cup CachePrompts, m \in CacheModels :
            LET h == HashOf[cache_manager[1], m, p]
            IN  (h \in DOMAIN cache_file /\ cache_file[h].expires_at <= now)
                  => Lookup(p, m) = None)
  /\ [][CacheConstruct =>
          \A k \in DOMAIN cache_file' : cache_file'[k].expires_at > now']_vars

\* C5 witness: a reply that was stored has expired, a lookup has returned
\* None and the construction of a cache manager has removed the entry from
\* the file.
C5_Witness ==
  /\ got.called /\ got.result = None
  /\ \E t \in DOMAIN stored :
       /\ ~ErrorShaped(stored[t].response, stored[t].usage_info)
       /\ stored[t].expires_at <= now
       /\ HashOf[t[3], t[2], t[1]] \notin DOMAIN cache_file


\* the claims' words for an entry that has expired by the time t
Expired(entry, t) == entry.expires_at <= t

\* C16 (construction self-heals storage): right after a CacheManager is
\* constructed the file holds no entry that has expired and no entry with
\* the shape of an error, and every entry that was in the file and is
\* neither is still there, unchanged.
C16_ConstructionSelfHeals ==
  [][CacheConstruct
     => /\ process' = "running"
        /\ \A k \in DOMAIN cache_file' :
             /\ ~Expired(cache_file'[k], now')
             /\ ~ErrorShaped(cache_file'[k].response, cache_file'[k].usage_info)
        /\ \A k \in DOMAIN cache_file :
             (/\ ~Expired(cache_file[k], now)
              /\ ~ErrorShaped(cache_file[k].response, cache_file[k].usage_info))
             => /\ k \in DOMAIN cache_file'
                /\ cache_file'[k] = cache_file[k]]_vars

\* a construction pruned the failure that had been stored and kept a reply
C16_Witness ==
  /\ \E t \in DOMAIN stored : stored[t].pruned
  /\ \E k \in DOMAIN cache_file : cache_file[k].response = Hi
  /\ process = "running"


\* C17 (invalidate): delete(P, M) takes from the file the entry whose key
\* is the hash of the normalized P, of M and of the manager's seed, and no
\* other: a lookup of (P, M) right after it returns None, every other entry
\* is in the file as it was, no entry is new, and when the key was absent
\* the file is as it was.
C17_InvalidateExactly ==
  [][\A prompt \in CachePrompts, model_name \in CacheModels :
       CacheDeleteOf(prompt, model_name)
       => LET key == generate_hash_raw(cache_manager[1], normalize_prompt(prompt), model_name)
          IN  /\ process' = "running"
              /\ manager_get(cache_manager'[1], storage', cache_file', now', prompt,
                             model_name).result = None
              /\ DOMAIN cache_file' = DOMAIN cache_file \ {key}
              /\ \A k \in DOMAIN cache_file' : cache_file'[k] = cache_file[k]
              /\ key \notin DOMAIN cache_file => cache_file' = cache_file]_vars

\* an entry that had not expired was invalidated, and another entry is
\* still in the file
C17_Witness ==
  /\ process = "running"
  /\ \E t \in DOMAIN stored :
       /\ stored[t].deleted
       /\ stored[t].expires_at > now
       /\ HashOf[t[3], t[2], t[1]] \notin DOMAIN cache_file
  /\ \E u \in DOMAIN stored : LiveStore(u) /\ HashOf[u[3], u[2], u[1]] \in DOMAIN cache_file


\* a store made under another seed than the cache manager has now, for a
\* prompt and model for which nothing was stored under the seed it has
OtherSeedOnly(t) ==
  /\ t \in DOMAIN stored
  /\ t[3] # cache_manager[1]
  /\ ~\E u \in DOMAIN stored :
        /\ u[3] = cache_manager[1]
        /\ u[2] = t[2]
        /\ normalize_prompt(u[1]) = normalize_prompt(t[1])

\* C22 (seed isolation): the key of a prompt and model under one seed is
\* not their key under another seed, so over the one cache file a lookup
\* through a cache manager with seed s2 never returns the entry that was
\* stored for the same prompt and model through a cache manager with seed
\* s1: where nothing was stored for them under s2, the lookup returns None.
C22_SeedIsolation ==
  /\ \A s1, s2 \in Seeds, m \in CacheModels, p \in CachePrompts :
       s1 # s2 => HashOf[s1, m, p] # HashOf[s2, m, p]
  /\ cache_manager # NoManager =>
       \A t \in DOMAIN stored :
         OtherSeedOnly(t) =>
           /\ Lookup(t[1], t[2]) = None
           /\ got.key = HashOf[cache_manager[1], t[2], t[1]] => got.result = None

\* a reply stored under one seed is in the file and has not expired, and
\* the last lookup, made under the other seed for the same prompt and
\* model, returned None
C22_Witness ==
  /\ cache_manager # NoManager
  /\ \E t \in DOMAIN stored :
       /\ OtherSeedOnly(t)
       /\ stored[t].response = Hi
       /\ stored[t].expires_at > now
       /\ HashOf[t[3], t[2], t[1]] \in DOMAIN cache_file
       /\ got.called
       /\ got.key = HashOf[cache_manager[1], t[2], t[1]]
       /\ got.result = None

\* the entry a process's store puts under its key
EntryOf(me) ==
  [prompt |-> me.prompt, model |-> me.model_name, response |-> me.response,
   usage_info |-> me.usage_info, created_at |-> me.created_at,
   expires_at |-> me.created_at + DEFAULT_EXPIRY_DAYS]

\* the file holds the entry the process stored
Persisted(w) ==
  LET me == writers.of[w]
  IN  me.prompt_hash \in DOMAIN cache_file /\ cache_file[me.prompt_hash] = EntryOf(me)

BothReturned == \A w \in WriterNames : writers.of[w].pc = "returned"

DifferentKeys ==
  \A v, w \in WriterNames : v # w => writers.of[v].prompt_hash # writers.of[w].prompt_hash

\* both processes loaded the table before either saved it
BothLoadedFirst ==
  /\ Len(writers.events) = 4
  /\ writers.events[1][2] = "load"
  /\ writers.events[2][2] = "load"

\* C31 (lost update under concurrent runs): once two processes have each
\* stored a different key through the same cache file, the entry of the
\* process that saved first is missing exactly when both had loaded the
\* table before either saved it, and then the entry of the process that
\* saved last is in the file; otherwise both entries are in the file.  A
\* store between whose load and save no other process acted leaves every
\* other key's entry as it was.
C31_LostUpdate ==
  /\ []((BothReturned /\ DifferentKeys) =>
          LET last == writers.events[4][1]
          IN  /\ Persisted(last)
              /\ \A w \in WriterNames \ {last} : Persisted(w) <=> ~BothLoadedFirst)
  /\ [][\A w \in WriterNames :
          (/\ writers.of[w].pc = "loaded"
           /\ writers'.of[w].pc = "returned"
           /\ writers.events[Len(writers.events)] = <<w, "load">>)
          => \A k \in DOMAIN cache_file \ {writers.of[w].prompt_hash} :
               k \in DOMAIN cache_file' /\ cache_file'[k] = cache_file[k]]_vars

\* both stores have completed, on different keys, both processes loaded
\* the table before either saved it, and the file holds one entry only
C31_Witness ==
  /\ BothReturned
  /\ DifferentKeys
  /\ BothLoadedFirst
  /\ \E v, w \in WriterNames : Persisted(v) /\ ~Persisted(w)
  /\ Cardinality(DOMAIN cache_file) = 1

HasCachedFlag(usage_info) ==
  "cached" \in DOMAIN usage_info /\ usage_info["cached"] = PyBool(TRUE)

\* C36 (the cached flag): what call_ai_model returns after the review of a
\* response taken from the cache has cached = True in its usage, what it
\* returns after the review of a backend's response has no cached key, and
\* no entry of the cache file has a cached key in its usage_info.
C36_CachedFlag ==
  /\ [][(gw'.pc = "returned" /\ gw.pc # "returned") =>
          /\ gw.pc \in {"debug_cached", "debug_fresh"}
          /\ gw.pc = "debug_cached" => HasCachedFlag(gw'.usage_info)
          /\ gw.pc = "debug_fresh" => "cached" \notin DOMAIN gw'.usage_info]_vars
  /\ [](\A k \in DOMAIN cache_file : "cached" \notin DOMAIN cache_file[k].usage_info)

\* a response served from the cache has been returned with the flag, and
\* the entry it came from is in the file without it
C36_Witness ==
  /\ gw.pc = "returned"
  /\ HasCachedFlag(gw.usage_info)
  /\ cache_manager # NoManager
  /\ LET k == generate_hash(cache_manager[1], gw.prompt_content, gw.model_name)
     IN  /\ k \in DOMAIN cache_file
         /\ cache_file[k].response = gw.response_text
         /\ "cached" \notin DOMAIN cache_file[k].usage_info

\* a lookup of the rejected response's key returns it now
RejectedIsHit ==
  LET rj == calls.rejected
      found == cache_get(rj.cache_seed, cache_file, now, rj.prompt_content, rj.model_name)
  IN  found # None /\ found[1] = rj.response_text

\* the call in progress is for the key of the rejected response
CallForRejected ==
  /\ calls.rejected # <<>>
  /\ cache_manager # NoManager
  /\ generate_hash(cache_manager[1], gw.prompt_content, gw.model_name)
       = generate_hash(calls.rejected.cache_seed, calls.rejected.prompt_content,
                       calls.rejected.model_name)

\* C37 as stated (a rejected response stays cached): once the reviewer has
\* answered n to a fresh response that was stored, a lookup of its key
\* returns that response until a retry of the key deletes it.
C37_RejectedStaysCached_AsStated ==
  calls.rejected # <<>> => RejectedIsHit

\* C37 (a rejected response stays cached): a fresh response that is not an
\* error is in the cache while it is under review; once the reviewer has
\* answered n to it, a lookup of its key returns it until a retry of the key
\* deletes it or its entry expires, and a later call for the key that gets
\* past the prompt review before then is answered with it from the cache.
C37_RejectedStaysCached ==
  /\ []((/\ gw.pc = "debug_fresh"
         /\ cache_manager # NoManager
         /\ ~ErrorShaped(gw.response_text, gw.usage_info))
          => LET found == cache_get(cache_manager[1], cache_file, now,
                                    gw.prompt_content, gw.model_name)
             IN  found # None /\ found[1] = gw.response_text)
  /\ []((calls.rejected # <<>> /\ now < calls.rejected.expires_at) => RejectedIsHit)
  /\ [][(/\ gw.pc = "debug_prompt"
         /\ gw'.pc \notin {"debug_prompt", "dead"}
         /\ CallForRejected
         /\ now < calls.rejected.expires_at)
          => (gw'.pc = "debug_cached" /\ gw'.response_text = calls.rejected.response_text)]_vars

\* a later process has asked for the key of the response that was rejected
\* and has it from the cache, under review
C37_Witness ==
  /\ history.runs >= 2
  /\ process = "running"
  /\ gw.pc = "debug_cached"
  /\ CallForRejected
  /\ gw.response_text = calls.rejected.response_text
  /\ calls.retries = 0

=============================================================================
